---- MODULE Spec2Model ----
(***************************************************************************)
(* csmake-system-build: the partitioner SystemBuildMsdosPartitions and its *)
(* GPT specialisation, as a state machine over the shared system record.   *)
(*                                                                         *)
(* Python strings on which the code works character by character (order    *)
(* tokens, sizes, names, device paths, fstab ids) are sequences of         *)
(* one-character strings; strings the code only looks up or passes on      *)
(* (type tokens, flags, tool names) are TLA+ strings.  Python lists are    *)
(* 0-based, the sequences here 1-based: part[1] of the code is part[2].    *)
(***************************************************************************)
EXTENDS Integers, Sequences, FiniteSets, TLC

\* ------------------------------------------------------------- bounds
\* declarations per option set drawn from the whole palette
MaxDecls == 2
\* declarations per option set drawn from the primary/extended/logical core
MaxSlotDecls == 5
\* declarations per option set when two disks are partitioned from it
MaxPairDecls == 1
\* the largest count of a size request (1M .. MaxCount T)
MaxCount == 8

\* ------------------------------------------------------------ strings
Digits == <<"0", "1", "2", "3", "4", "5", "6", "7", "8", "9">>

DigitVal(c) == CHOOSE d \in 0..9 : Digits[d + 1] = c

IsDigit(c) == \E d \in 1..10 : Digits[d] = c

\* the byte value Python 2 compares str characters by
Ord(c) ==
  CASE IsDigit(c) -> 48 + DigitVal(c)
    [] c = ":" -> 58
    [] c = "E" -> 69
    [] c = "L" -> 76
    [] OTHER -> 127

RECURSIVE StrLess(_, _)
\* a < b for Python 2 str: lexicographic by byte, a proper prefix is smaller
StrLess(a, b) ==
  IF b = <<>> THEN FALSE
  ELSE IF a = <<>> THEN TRUE
  ELSE IF Ord(Head(a)) < Ord(Head(b)) THEN TRUE
  ELSE IF Ord(Head(a)) > Ord(Head(b)) THEN FALSE
  ELSE StrLess(Tail(a), Tail(b))

RECURSIVE IntToStr(_)
\* "%d" % n for n >= 0
IntToStr(n) ==
  IF n < 10 THEN <<Digits[n + 1]>>
  ELSE IntToStr(n \div 10) \o <<Digits[(n % 10) + 1]>>

\* sub in s
Contains(s, sub) ==
  \E i \in 1..(Len(s) - Len(sub) + 1) :
    SubSeq(s, i, i + Len(sub) - 1) = sub

\* Python's None where a string is expected
None == <<"None">>

\* ------------------------------------------------------- size strings
RECURSIVE StrToInt(_)
StrToInt(s) ==
  IF s = <<>> THEN 0
  ELSE 10 * StrToInt(SubSeq(s, 1, Len(s) - 1)) + DigitVal(s[Len(s)])

\* The system instance's size parser: a decimal count with a unit suffix.
\* Sizes are counted in units of 2^20 bytes (every size of the model is a
\* multiple of it), which keeps the products below within TLC's integers.
GetSizeInBytes(size) ==
  LET n == StrToInt(SubSeq(size, 1, Len(size) - 1))
      unit == size[Len(size)]
  IN  CASE unit = "M" -> n
        [] unit = "G" -> n * 1024
        [] unit = "T" -> n * 1024 * 1024

\* int(round(n * 100.0 / d)) for n >= 0, d > 0: half rounds away from zero
RoundPercent(n, d) == (2 * 100 * n + d) \div (2 * d)

\* mutant: a result of 0 is returned as it is
GetRequestedPercentageNoClamp(size, disksize) ==
  [percent |-> RoundPercent(GetSizeInBytes(size), disksize), warned |-> FALSE]

\* _getRequestedPercentage: [percent, warned]
GetRequestedPercentage(size, disksize) ==
  LET result == RoundPercent(GetSizeInBytes(size), disksize)
  IN  IF result = 0 THEN [percent |-> 1, warned |-> TRUE]
      ELSE [percent |-> result, warned |-> FALSE]

\* the call _getRequestedPercentage(size) with self.disksize = disksize,
\* as the run's trace of it: the arguments, the value returned and whether
\* the warning was logged
Request(size, disksize) ==
  [ size |-> size, disksize |-> disksize,
    percent |-> GetRequestedPercentage(size, disksize).percent,
    warned |-> GetRequestedPercentage(size, disksize).warned ]

\* ------------------------------------------------------ policy values
Msdos == "SystemBuildMsdosPartitions"

Gpt == "SystemBuildGptPartitions"

Modules == {Msdos, Gpt}

\* mutant: one slot too many in the msdos table
MsdosFiveSlots == 4 + 1

MSDOS_PART_PRIMARY_PARTITIONS == 4

GPT_PART_PRIMARY_PARTITIONS == 128

PART_PRIMARY_PARTITIONS(mod) ==
  IF mod = Gpt THEN GPT_PART_PRIMARY_PARTITIONS
  ELSE MSDOS_PART_PRIMARY_PARTITIONS

\* mutant: the GPT module inherits the MSDOS value
LogicalExtendedAlwaysAllowed(mod) == TRUE

PART_LOGICAL_EXTENDED_ALLOWED(mod) == mod = Msdos

PART_TYPE(mod) == IF mod = Gpt THEN "gpt" ELSE "msdos"

PART_FIRST_START == <<"2", "0", "4", "8", "s">>

\* mutant: the logical counter started one too low
FirstLogicalFour == 5 - 1

\* the first number given to a logical partition
FirstLogical == 5

\* PART_FSTYPES: symbolic type -> parted's file system type
PART_FSTYPES ==
  [t \in {"ext2", "linux", "fat16", "fat32", "vfat", "HFS", "NTFS",
          "linux-swap", "reiserfs", "ufs"} |->
     CASE t = "linux" -> "ext2"
       [] t = "vfat" -> "fat32"
       [] OTHER -> t]

\* the secondary type-code tool of _editPartitionWithSfdisk
TypeCodeTool(mod) == IF mod = Gpt THEN "gfdisk" ELSE "sfdisk"


\* ------------------------------------------------------- declarations
\* The fields of a part_<name> option after the split on ',' and the strip:
\* <<order, size, type, flag...>>.
Primary01 == <<<<"0", "1">>, <<"1", "0", "G">>, "ext4", "boot">>

Extended2E == <<<<"2", "E">>, <<"3", "0", "G">>, "linux">>

Logical2E1L == <<<<"2", "E", ":", "1", "L">>, <<"2", "0", "G">>, "linux-swap">>

Logical2E9L == <<<<"2", "E", ":", "9", "L">>, <<"6", "0", "G">>, "ext4">>

\* the primary/extended/logical core, for option sets that fill the table
SlotDeclarations == {Primary01, Extended2E, Logical2E1L}

\* the whole palette: order tokens whose literal values differ from the
\* numbers they get, equal tokens, a second extended, a primary sorted
\* after the extended, and tokens ending in L of other shapes
Declarations ==
  SlotDeclarations \cup
  { Logical2E9L,
    <<<<"0", "3">>, <<"1", "0", "G">>, "ext4", "boot">>,
    <<<<"0", "7">>, <<"6", "0", "G">>, "linux-swap">>,
    <<<<"1", "0">>, <<"6", "0", "G">>, "ext2">>,
    <<<<"2">>, <<"1", "0", "G">>, "linux-swap", "boot">>,
    <<<<"3">>, <<"6", "0", "G">>, "ext2">>,
    <<<<"3", "E">>, <<"1", "0", "G">>, "linux">>,
    <<<<"0", "2", "E", ":", "0", "1", "L">>, <<"1", "0", "G">>, "ext2">>,
    <<<<"9", "L">>, <<"1", "0", "G">>, "ext2">> }

\* the name of the i-th part_<name> option
PartName(i) == <<"p">> \o IntToStr(i)

SeqsUpTo(S, n) == UNION {[1..k -> S] : k \in 0..n}

\* option sets: the part_ options in the order options.iteritems() yields
\* them, each already the list [name, order, size, type, flag...]
OptionSets ==
  { [i \in 1..Len(f) |-> <<PartName(i)>> \o f[i]] :
      f \in SeqsUpTo(Declarations, MaxDecls)
            \cup SeqsUpTo(SlotDeclarations, MaxSlotDecls) }

Reverse(s) == [i \in 1..Len(s) |-> s[Len(s) + 1 - i]]

\* ------------------------------------------------------- shared state
DevSda == <<"/", "d", "e", "v", "/", "s", "d", "a">>

DevLoop0 == <<"/", "d", "e", "v", "/", "l", "o", "o", "p", "0">>

DiskSize == <<"1", "0", "0", "G">>

\* a disk record as the disk stage leaves it: no 'partitions', no 'swaps'
FreshDisk(device, fstabId) ==
  [ device |-> device,
    size |-> GetSizeInBytes(DiskSize),
    fstabId |-> fstabId,
    keys |-> {},
    partitions |-> <<>>,
    swaps |-> <<>> ]

DefinedSystems == {"sys"}

SystemNames == {"sys", "nosys"}

DiskNames == {"d1", "d2"}

VARIABLES
  options,        \* the part_ options of the section (never changes)
  disks,          \* systemEntry['disks']: disk name -> disk record
  pc,             \* "idle", "loop", "swaps", "done"
  result,         \* "none", "passed", "failed", "raised"
  build, module, diskname,
  system,         \* options['system'] of the last invocation
  partitions,     \* the sorted list of _doPartitioning
  idx,            \* position of the for loop in partitions
  primary, logical,
  startPercent, extensionStart, extensionEnd,
  swaps,          \* self.swaps
  swapIdx,        \* position of the swap pass in self.swaps
  cmds,           \* the tool commands the current run has issued
  exits,          \* the exit statuses of those the last step issued
  requested,      \* the run's last call of _getRequestedPercentage
  ran             \* per disk, the run that got past the look-ups on it

\* the state the sections after the partitioner work on
VARIABLES
  fsOptions,      \* the mount point options of the SystemBuildFileSystem
                  \* section, in the order options.keys() yields them
  systemEntry,    \* the system entry's 'filesystem' and 'filesystem-info'
  fsRun,          \* the last invocation of SystemBuildFileSystem
  aspectOptions,  \* the env_ options of SystemBuildGetPartitionDevices
  env,            \* self.env.env restricted to environment variables
  joinpoint,      \* the aspect joinpoint that ran last, if nothing ran since
  efiOptions,     \* the options of the SystemBuildEfiGrubInstall section
  grub            \* GRUB_OPTIONS and the files the grub section wrote

\* the partitioner's variables other than the shared disk records
partvars == << options, pc, result, build, module, diskname, system,
               partitions, idx, primary, logical, startPercent,
               extensionStart, extensionEnd, swaps, swapIdx, cmds, exits,
               requested, ran >>

sysvars == << fsOptions, systemEntry, fsRun, aspectOptions, env, joinpoint,
              efiOptions, grub >>

vars == << options, disks, pc, result, build, module, diskname, system,
           partitions, idx, primary, logical, startPercent, extensionStart,
           extensionEnd, swaps, swapIdx, cmds, exits, requested, ran,
           fsOptions, systemEntry, fsRun, aspectOptions, env, joinpoint,
           efiOptions, grub >>

\* no call of _getRequestedPercentage yet
NoRequest == [size |-> <<>>, disksize |-> 0, percent |-> 0, warned |-> FALSE]

\* a system entry with no 'filesystem' and no 'filesystem-info' yet
FreshSystem == [keys |-> {}, filesystem |-> <<>>, info |-> <<>>]

NoFsRun == [system |-> "", build |-> FALSE, result |-> "none", cmds |-> <<>>]

\* prev is the joinpoint that ran before the last one
NoJoinpoint ==
  [name |-> "none", phase |-> "", result |-> "none", prev |-> "none"]

\* GRUB_OPTIONS of SystemBuildEfiGrubInstall as the class defines it
EFI_GRUB_OPTIONS == <<"-v", "--no-floppy", "--recheck", "--no-nvram">>

\* before any build: startup is the content of startup.nsh, mv the exit
\* status of the last mv
NoGrub ==
  [ GRUB_OPTIONS |-> EFI_GRUB_OPTIONS, entry |-> "none", result |-> "none",
    bootloaderId |-> <<>>, mv |-> 0, startup |-> <<>>,
    startupPath |-> <<>> ]

\* no later section is configured
InitNoSections ==
  /\ fsOptions = <<>>
  /\ systemEntry = FreshSystem
  /\ fsRun = NoFsRun
  /\ aspectOptions = <<>>
  /\ env = <<>>
  /\ joinpoint = NoJoinpoint
  /\ efiOptions = <<>>
  /\ grub = NoGrub

\* the partitioner before any invocation
InitPartitioner ==
  /\ pc = "idle"
  /\ result = "none"
  /\ build = FALSE
  /\ module = Msdos
  /\ diskname = "d1"
  /\ system = "sys"
  /\ partitions = <<>>
  /\ idx = 1
  /\ primary = 1
  /\ logical = FirstLogical
  /\ startPercent = 0
  /\ extensionStart = -1
  /\ extensionEnd = -1
  /\ swaps = <<>>
  /\ swapIdx = 1
  /\ cmds = <<>>
  /\ exits = <<>>
  /\ requested = NoRequest
  /\ ran = <<>>

InitRun == InitPartitioner /\ InitNoSections

Init ==
  /\ options \in OptionSets
  /\ disks = [d \in {"d1"} |-> FreshDisk(DevSda, DevSda)]
  /\ InitRun


\* ------------------------------------------------------------ sorting
\* mutant: the sort key is the declaration name
InsertByName(x, s) ==
  LET before == {j \in 1..Len(s) : ~StrLess(x[1], s[j][1])}
      k == IF before = {} THEN 0
           ELSE CHOOSE j \in before : \A i \in before : i <= j
  IN  SubSeq(s, 1, k) \o <<x>> \o SubSeq(s, k + 1, Len(s))

\* x put behind every element of the sorted s whose order token is not
\* greater than its own
InsertByOrder(x, s) ==
  LET before == {j \in 1..Len(s) : ~StrLess(x[2], s[j][2])}
      k == IF before = {} THEN 0
           ELSE CHOOSE j \in before : \A i \in before : i <= j
  IN  SubSeq(s, 1, k) \o <<x>> \o SubSeq(s, k + 1, Len(s))

RECURSIVE SortByOrder(_)
\* partitions.sort(key=lambda x: x[1]): a stable sort by the order token
SortByOrder(s) ==
  IF s = <<>> THEN <<>>
  ELSE InsertByOrder(s[Len(s)], SortByOrder(SubSeq(s, 1, Len(s) - 1)))

\* ----------------------------------------------------------- commands
NoCmd ==
  [ tool |-> "", part |-> <<>>, number |-> 0, parttype |-> "",
    fstype |-> "", start |-> 0, end |-> 0, startstr |-> <<>>,
    endstr |-> <<>>, arg |-> "", dev |-> <<>> ]

\* the exit statuses a loop iteration draws for the commands it may issue;
\* failFlag is the position of the flag whose 'set' call fails, 0 for none
ExitChoices(nflags) ==
  [mkpart : {0, 1}, name : {0, 1}, failFlag : 0..nflags, type : {0, 1}]

NoExits == [mkpart |-> 0, name |-> 0, failFlag |-> 0, type |-> 0]

\* _editPartitionWithSfdisk (overridden by the GPT module): subprocess.call
EditPartitionWithSfdisk(mod, device, number, partition) ==
  [NoCmd EXCEPT !.tool = TypeCodeTool(mod), !.part = partition[1],
                !.number = number, !.arg = partition[4], !.dev = device]

\* mutant: the name command is run by check_call
CreateNextPartitionNameFatal(mod, device, number, parttype, partition, start, end, rc) ==
  LET mapped == partition[4] \in DOMAIN PART_FSTYPES
      fstype == IF parttype # "extended" /\ mapped
                THEN PART_FSTYPES[partition[4]] ELSE "ext2"
      callsfdisk == parttype # "extended" /\ ~mapped
      specifics == IF parttype = "extended" THEN "" ELSE fstype
      startstr == IF start = 0 THEN PART_FIRST_START
                  ELSE IntToStr(start) \o <<"%">>
      flags == SubSeq(partition, 5, Len(partition))
      mkpart == [NoCmd EXCEPT !.tool = "mkpart", !.part = partition[1],
                   !.parttype = parttype, !.fstype = specifics,
                   !.start = start, !.end = end, !.startstr = startstr,
                   !.endstr = IntToStr(end) \o <<"%">>, !.dev = device]
      name == [NoCmd EXCEPT !.tool = "name", !.part = partition[1],
                 !.number = number, !.dev = device]
      nset == IF rc.failFlag = 0 THEN Len(flags) ELSE rc.failFlag
      sets == [i \in 1..nset |->
                 [NoCmd EXCEPT !.tool = "set", !.part = partition[1],
                    !.number = number, !.arg = flags[i], !.dev = device]]
      setrcs == [i \in 1..nset |-> IF i = rc.failFlag THEN 1 ELSE 0]
      edit == IF callsfdisk
              THEN <<EditPartitionWithSfdisk(mod, device, number, partition)>>
              ELSE <<>>
      editrc == IF callsfdisk THEN <<rc.type>> ELSE <<>>
  IN  IF rc.mkpart # 0
      THEN [cmds |-> <<mkpart>>, exits |-> <<rc.mkpart>>,
            raised |-> TRUE, swap |-> FALSE]
      ELSE IF rc.name # 0
      THEN [cmds |-> <<mkpart, name>>, exits |-> <<0, rc.name>>,
            raised |-> TRUE, swap |-> FALSE]
      ELSE IF rc.failFlag # 0
      THEN [cmds |-> <<mkpart, name>> \o sets,
            exits |-> <<0, rc.name>> \o setrcs,
            raised |-> TRUE, swap |-> FALSE]
      ELSE [cmds |-> <<mkpart, name>> \o sets \o edit,
            exits |-> <<0, rc.name>> \o setrcs \o editrc,
            raised |-> FALSE, swap |-> fstype = "linux-swap"]

\* _createNextPartition: the commands issued with their exit statuses,
\* whether a check_call raised, and whether (device, number, partition)
\* was appended to self.swaps
CreateNextPartition(mod, device, number, parttype, partition, start, end, rc) ==
  LET mapped == partition[4] \in DOMAIN PART_FSTYPES
      fstype == IF parttype # "extended" /\ mapped
                THEN PART_FSTYPES[partition[4]] ELSE "ext2"
      callsfdisk == parttype # "extended" /\ ~mapped
      specifics == IF parttype = "extended" THEN "" ELSE fstype
      startstr == IF start = 0 THEN PART_FIRST_START
                  ELSE IntToStr(start) \o <<"%">>
      flags == SubSeq(partition, 5, Len(partition))
      mkpart == [NoCmd EXCEPT !.tool = "mkpart", !.part = partition[1],
                   !.parttype = parttype, !.fstype = specifics,
                   !.start = start, !.end = end, !.startstr = startstr,
                   !.endstr = IntToStr(end) \o <<"%">>, !.dev = device]
      name == [NoCmd EXCEPT !.tool = "name", !.part = partition[1],
                 !.number = number, !.dev = device]
      nset == IF rc.failFlag = 0 THEN Len(flags) ELSE rc.failFlag
      sets == [i \in 1..nset |->
                 [NoCmd EXCEPT !.tool = "set", !.part = partition[1],
                    !.number = number, !.arg = flags[i], !.dev = device]]
      setrcs == [i \in 1..nset |-> IF i = rc.failFlag THEN 1 ELSE 0]
      edit == IF callsfdisk
              THEN <<EditPartitionWithSfdisk(mod, device, number, partition)>>
              ELSE <<>>
      editrc == IF callsfdisk THEN <<rc.type>> ELSE <<>>
  IN  IF rc.mkpart # 0
      THEN [cmds |-> <<mkpart>>, exits |-> <<rc.mkpart>>,
            raised |-> TRUE, swap |-> FALSE]
      ELSE IF rc.failFlag # 0
      THEN [cmds |-> <<mkpart, name>> \o sets,
            exits |-> <<0, rc.name>> \o setrcs,
            raised |-> TRUE, swap |-> FALSE]
      ELSE [cmds |-> <<mkpart, name>> \o sets \o edit,
            exits |-> <<0, rc.name>> \o setrcs \o editrc,
            raised |-> FALSE, swap |-> fstype = "linux-swap"]

\* self.startPercent, self.extensionStart, self.extensionEnd
Cursor(sp, es, ee) ==
  [startPercent |-> sp, extensionStart |-> es, extensionEnd |-> ee]

\* the outcome of a _create...Partition call: the exception that left it
\* ("" for none), the commands issued, the cursor afterwards
Created(exc, made, cur) ==
  [ exc |-> exc, cmds |-> made.cmds, exits |-> made.exits,
    swap |-> made.swap, cur |-> cur ]

\* mutant: the end is not cut at the end of the disk
CreatePrimaryPartitionNoClamp(mod, device, number, partition, disksize, cur, rc) ==
  LET requestedPercent == GetRequestedPercentage(partition[3], disksize).percent
      start == cur.startPercent
      end == start + requestedPercent
      made == CreateNextPartition(mod, device, number, "primary", partition,
                                  start, end, rc)
  IN  IF made.raised THEN Created("CalledProcessError", made, cur)
      ELSE Created("", made, [cur EXCEPT !.startPercent = end])

\* _createPrimaryPartition
CreatePrimaryPartition(mod, device, number, partition, disksize, cur, rc) ==
  LET requestedPercent == GetRequestedPercentage(partition[3], disksize).percent
      start == cur.startPercent
      sum == start + requestedPercent
      end == IF sum > 100 THEN 100 ELSE sum
      made == CreateNextPartition(mod, device, number, "primary", partition,
                                  start, end, rc)
  IN  IF made.raised THEN Created("CalledProcessError", made, cur)
      ELSE Created("", made, [cur EXCEPT !.startPercent = end])

\* _createExtendedPartition
CreateExtendedPartition(mod, device, number, partition, disksize, cur, rc) ==
  LET requestedPercent == GetRequestedPercentage(partition[3], disksize).percent
      start == cur.startPercent
      sum == start + requestedPercent
      end == IF sum > 100 THEN 100 ELSE sum
      made == CreateNextPartition(mod, device, number, "extended", partition,
                                  start, end, rc)
  IN  IF made.raised THEN Created("CalledProcessError", made, cur)
      ELSE Created("", made, [cur EXCEPT !.extensionStart = start,
                                         !.extensionEnd = end])

\* mutant: the logical extent is not cut at the end of the extended one
CreateLogicalPartitionNoClamp(mod, device, number, partition, disksize, cur, rc) ==
  LET requestedPercent == GetRequestedPercentage(partition[3], disksize).percent
      start == cur.extensionStart
      end == start + requestedPercent
      made == CreateNextPartition(mod, device, number, "logical", partition,
                                  start, end, rc)
  IN  IF cur.extensionStart = -1
      THEN Created("SystemError",
                   [cmds |-> <<>>, exits |-> <<>>, raised |-> TRUE,
                    swap |-> FALSE], cur)
      ELSE IF made.raised THEN Created("CalledProcessError", made, cur)
      ELSE Created("", made, [cur EXCEPT !.extensionStart = end])

\* _createLogicalPartition
CreateLogicalPartition(mod, device, number, partition, disksize, cur, rc) ==
  LET requestedPercent == GetRequestedPercentage(partition[3], disksize).percent
      start == cur.extensionStart
      sum == start + requestedPercent
      end == IF sum > cur.extensionEnd THEN cur.extensionEnd ELSE sum
      made == CreateNextPartition(mod, device, number, "logical", partition,
                                  start, end, rc)
  IN  IF cur.extensionStart = -1
      THEN Created("SystemError",
                   [cmds |-> <<>>, exits |-> <<>>, raised |-> TRUE,
                    swap |-> FALSE], cur)
      ELSE IF made.raised THEN Created("CalledProcessError", made, cur)
      ELSE Created("", made, [cur EXCEPT !.extensionStart = end])

\* mutant: the partition separator is never inserted
CreatePartitionEntryNoInfix(part, number, device, diskFstabId) ==
  LET numbered(s) == IF number > 0 THEN s \o IntToStr(number) ELSE s
  IN  [ number |-> number, size |-> part[3], device |-> numbered(device),
        fstabId |-> IF ~Contains(diskFstabId, <<"=">>)
                    THEN numbered(diskFstabId) ELSE None ]

\* _createPartitionEntry with partFstabId left at its default None
CreatePartitionEntry(part, number, device, diskFstabId) ==
  LET numbered(s) ==
        IF number > 0
        THEN s \o (IF Contains(s, <<"l", "o", "o", "p">>) THEN <<"p">>
                   ELSE <<>>) \o IntToStr(number)
        ELSE s
      fulldevstring == numbered(device)
      fullpartid == numbered(diskFstabId)
      partFstabId == IF ~Contains(diskFstabId, <<"=">>) THEN fullpartid
                     ELSE None
  IN  [ number |-> number, size |-> part[3], device |-> fulldevstring,
        fstabId |-> partFstabId ]


\* ------------------------------------------------- one loop iteration
\* what an iteration of the for loop over the sorted partitions does:
\* status "next" (go on), "failed" (log.failed, return None) or "raised"
\* (an exception no handler of the loop catches leaves _doPartitioning)
Outcome(status, made, cur, emit, number, prim, logi) ==
  [ status |-> status, cmds |-> made.cmds, exits |-> made.exits,
    swap |-> made.swap, cur |-> cur, emit |-> emit, number |-> number,
    primary |-> prim, logical |-> logi ]

Nothing == [cmds |-> <<>>, exits |-> <<>>, swap |-> FALSE]

\* an error branch of the loop body: log.error, log.failed, return None
Rejected(cur, prim, logi) ==
  Outcome("failed", Nothing, cur, FALSE, 0, prim, logi)

\* mutant: the counters are not incremented after a record is emitted
FinishedNoIncrement(bld, made, cur, number, prim, logi, prim1, logi1) ==
  IF ~bld THEN Outcome("next", Nothing, cur, TRUE, number, prim, logi)
  ELSE IF made.exc = "SystemError"
  THEN Outcome("raised", [made EXCEPT !.swap = FALSE], cur, FALSE, 0,
               prim, logi)
  ELSE IF made.exc = "CalledProcessError"
  THEN Outcome("failed", [made EXCEPT !.swap = FALSE], cur, FALSE, 0,
               prim, logi)
  ELSE Outcome("next", made, made.cur, TRUE, number, prim, logi)

\* mutant: the handler of CalledProcessError lets the loop go on
FinishedSwallowsFailure(bld, made, cur, number, prim, logi, prim1, logi1) ==
  IF ~bld THEN Outcome("next", Nothing, cur, TRUE, number, prim1, logi1)
  ELSE IF made.exc = "SystemError"
  THEN Outcome("raised", [made EXCEPT !.swap = FALSE], cur, FALSE, 0,
               prim, logi)
  ELSE IF made.exc = "CalledProcessError"
  THEN Outcome("next", [made EXCEPT !.swap = FALSE], cur, FALSE, 0,
               prim, logi)
  ELSE Outcome("next", made, made.cur, TRUE, number, prim1, logi1)

\* mutant: the create call is made in reuse mode as well
FinishedAlwaysCreates(bld, made, cur, number, prim, logi, prim1, logi1) ==
  IF made.exc = "SystemError"
  THEN Outcome("raised", [made EXCEPT !.swap = FALSE], cur, FALSE, 0,
               prim, logi)
  ELSE IF made.exc = "CalledProcessError"
  THEN Outcome("failed", [made EXCEPT !.swap = FALSE], cur, FALSE, 0,
               prim, logi)
  ELSE Outcome("next", made, made.cur, TRUE, number, prim1, logi1)

\* the tail shared by the three branches: the create call in build mode,
\* then _createPartitionEntry with number and the counters' increment to
\* (prim1, logi1); the except clauses catch CalledProcessError only
Finished(bld, made, cur, number, prim, logi, prim1, logi1) ==
  IF ~bld THEN Outcome("next", Nothing, cur, TRUE, number, prim1, logi1)
  ELSE IF made.exc = "SystemError"
  THEN Outcome("raised", [made EXCEPT !.swap = FALSE], cur, FALSE, 0,
               prim, logi)
  ELSE IF made.exc = "CalledProcessError"
  THEN Outcome("failed", [made EXCEPT !.swap = FALSE], cur, FALSE, 0,
               prim, logi)
  ELSE Outcome("next", made, made.cur, TRUE, number, prim1, logi1)

LogicalBranch(mod, bld, disk, part, cur, prim, logi, rc) ==
  LET token == part[2]
  IN  IF ~PART_LOGICAL_EXTENDED_ALLOWED(mod) THEN Rejected(cur, prim, logi)
      ELSE IF Len(token) < 4 \/ token[2] # "E" \/ token[3] # ":"
      THEN Rejected(cur, prim, logi)
      ELSE Finished(bld,
                    CreateLogicalPartition(mod, disk.device, logi, part,
                                           disk.size, cur, rc),
                    cur, logi, prim, logi, prim, logi + 1)

ExtendedBranch(mod, bld, disk, part, cur, prim, logi, rc) ==
  LET token == part[2]
  IN  IF ~PART_LOGICAL_EXTENDED_ALLOWED(mod) THEN Rejected(cur, prim, logi)
      ELSE IF prim > PART_PRIMARY_PARTITIONS(mod)
      THEN Rejected(cur, prim, logi)
      ELSE IF Len(token) < 2 THEN Rejected(cur, prim, logi)
      ELSE IF cur.extensionStart # -1 THEN Rejected(cur, prim, logi)
      ELSE Finished(bld,
                    CreateExtendedPartition(mod, disk.device, prim, part,
                                            disk.size, cur, rc),
                    cur, prim, prim, logi, prim + 1, logi)

PrimaryBranch(mod, bld, disk, part, cur, prim, logi, rc) ==
  IF prim > PART_PRIMARY_PARTITIONS(mod) THEN Rejected(cur, prim, logi)
  ELSE Finished(bld,
                CreatePrimaryPartition(mod, disk.device, prim, part,
                                       disk.size, cur, rc),
                cur, prim, prim, logi, prim + 1, logi)

\* the class the last character of an order token selects
ClassOf(token) ==
  LET last == token[Len(token)]
  IN  IF last = "L" THEN "logical"
      ELSE IF last = "E" THEN "extended" ELSE "primary"

\* the body of "for part in partitions"
Iteration(mod, bld, disk, part, cur, prim, logi, rc) ==
  IF ClassOf(part[2]) = "logical"
  THEN LogicalBranch(mod, bld, disk, part, cur, prim, logi, rc)
  ELSE IF ClassOf(part[2]) = "extended"
  THEN ExtendedBranch(mod, bld, disk, part, cur, prim, logi, rc)
  ELSE PrimaryBranch(mod, bld, disk, part, cur, prim, logi, rc)

Put(m, k, v) == [n \in DOMAIN m \cup {k} |-> IF n = k THEN v ELSE m[n]]

\* ------------------------------------------------------------ actions
\* mutant: the system look-up accepts any name
AnySystemDefined(sys) == TRUE

\* key in self.env.env
SystemDefined(sys) == sys \in DefinedSystems

\* mutant: the re-entry check never fires
NeverPartitioned(diskEntry) == FALSE

\* mutant: only a non-empty 'partitions' entry counts as defined
PartitionsNonEmpty(diskEntry) == diskEntry.partitions # <<>>

\* 'partitions' in diskEntry
AlreadyPartitioned(diskEntry) == "partitions" \in diskEntry.keys

\* _doPartitioning up to the for loop: the look-ups, the new 'partitions'
\* and 'swaps', mklabel (build mode), the collection and sort of part_*.
\* The run's locals are fresh at every invocation; build and module are
\* kept for the steps that follow only when the look-ups pass.
Invoke(mod, bld, sys, dname) ==
  /\ pc \in {"idle", "done"}
  /\ system' = sys
  /\ diskname' = dname
  /\ requested' = NoRequest
  /\ idx' = 1
  /\ primary' = 1
  /\ logical' = FirstLogical
  /\ startPercent' = 0
  /\ extensionStart' = -1
  /\ extensionEnd' = -1
  /\ swaps' = <<>>
  /\ swapIdx' = 1
  /\ UNCHANGED <<options, sysvars>>
  /\ IF \/ ~SystemDefined(sys)
        \/ dname \notin DOMAIN disks
        \/ AlreadyPartitioned(disks[dname])
     THEN /\ result' = "failed"
          /\ pc' = "done"
          /\ build' = FALSE
          /\ module' = Msdos
          /\ cmds' = <<>>
          /\ exits' = <<>>
          /\ partitions' = <<>>
          /\ UNCHANGED <<disks, ran>>
     ELSE /\ build' = bld
          /\ module' = mod
          /\ disks' = [disks EXCEPT ![dname].keys = {"partitions", "swaps"},
                                    ![dname].partitions = <<>>,
                                    ![dname].swaps = <<>>]
          /\ \E rc \in (IF bld THEN {0, 1} ELSE {0}) :
               /\ cmds' = IF bld
                          THEN << [NoCmd EXCEPT !.tool = "mklabel",
                                     !.arg = PART_TYPE(mod),
                                     !.dev = disks[dname].device] >>
                          ELSE <<>>
               /\ exits' = IF bld THEN <<rc>> ELSE <<>>
               /\ IF rc # 0
                  THEN /\ result' = "raised"
                       /\ pc' = "done"
                       /\ partitions' = <<>>
                  ELSE /\ result' = "none"
                       /\ pc' = "loop"
                       /\ \E reversed \in BOOLEAN :
                            partitions' =
                              SortByOrder(IF reversed THEN Reverse(options)
                                          ELSE options)
               /\ ran' = Put(ran, dname,
                             [ build |-> bld, module |-> mod,
                               partitions |-> partitions',
                               result |-> result' ])

\* one iteration of the for loop over the sorted partitions
ProcessPartition ==
  /\ pc = "loop"
  /\ idx <= Len(partitions)
  /\ LET part == partitions[idx]
         disk == disks[diskname]
     IN  \E o \in { Iteration(module, build, disk, part,
                              Cursor(startPercent, extensionStart,
                                     extensionEnd),
                              primary, logical, rc) :
                      rc \in (IF build THEN ExitChoices(Len(part) - 4)
                              ELSE {NoExits}) } :
               /\ cmds' = cmds \o o.cmds
               /\ exits' = o.exits
               /\ startPercent' = o.cur.startPercent
               /\ extensionStart' = o.cur.extensionStart
               /\ extensionEnd' = o.cur.extensionEnd
               /\ swaps' = IF o.swap
                           THEN Append(swaps, <<disk.device, o.number, part>>)
                           ELSE swaps
               /\ disks' = IF o.emit
                           THEN [disks EXCEPT ![diskname].partitions =
                                   Put(@, part[1],
                                       CreatePartitionEntry(part, o.number,
                                         disk.device, disk.fstabId))]
                           ELSE disks
               /\ primary' = o.primary
               /\ logical' = o.logical
               /\ requested' =
                    IF o.cmds # <<>>
                    THEN Request(part[3], disk.size)
                    ELSE requested
               /\ IF o.status = "next"
                  THEN /\ idx' = idx + 1
                       /\ UNCHANGED <<pc, result, ran>>
                  ELSE /\ pc' = "done"
                       /\ result' = o.status
                       /\ ran' = [ran EXCEPT ![diskname].result = o.status]
                       /\ UNCHANGED idx
  /\ UNCHANGED <<options, build, module, diskname, system, partitions,
                 swapIdx, sysvars>>

\* mutant: udevadm settle is run before partprobe
SettleProbe ==
  /\ pc = "loop"
  /\ idx > Len(partitions)
  /\ cmds' = cmds \o << [NoCmd EXCEPT !.tool = "settle"],
                        [NoCmd EXCEPT !.tool = "partprobe",
                           !.dev = disks[diskname].device] >>
  /\ \E rcProbe \in {0, 1}, rcSettle \in {0, 1} :
       exits' = <<rcSettle, rcProbe>>
  /\ pc' = "swaps"
  /\ swapIdx' = 1
  /\ UNCHANGED <<options, disks, result, build, module, diskname, system,
                 partitions, idx, primary, logical, startPercent,
                 extensionStart, extensionEnd, swaps, requested, ran,
                 sysvars>>

\* after the loop: partprobe, then udevadm settle, both by subprocess.call
ProbeSettle ==
  /\ pc = "loop"
  /\ idx > Len(partitions)
  /\ cmds' = cmds \o << [NoCmd EXCEPT !.tool = "partprobe",
                           !.dev = disks[diskname].device],
                        [NoCmd EXCEPT !.tool = "settle"] >>
  /\ \E rcProbe \in {0, 1}, rcSettle \in {0, 1} :
       exits' = <<rcProbe, rcSettle>>
  /\ pc' = "swaps"
  /\ swapIdx' = 1
  /\ UNCHANGED <<options, disks, result, build, module, diskname, system,
                 partitions, idx, primary, logical, startPercent,
                 extensionStart, extensionEnd, swaps, requested, ran,
                 sysvars>>

\* 'LABEL=%s' % name
Label(name) == <<"L", "A", "B", "E", "L", "=">> \o name

\* mutant: a failed mkswap is not caught and ends the run
SwapPassAborts ==
  /\ pc = "swaps"
  /\ swapIdx <= Len(swaps)
  /\ LET partpartition == swaps[swapIdx][3]
         name == partpartition[1]
         entry == disks[diskname].partitions[name]
         label == Label(name)
     IN  \E rc \in (IF build THEN {0, 1} ELSE {0}) :
           /\ cmds' = IF build
                      THEN Append(cmds, [NoCmd EXCEPT !.tool = "mkswap",
                                           !.part = name, !.arg = name,
                                           !.dev = entry.device])
                      ELSE cmds
           /\ exits' = IF build THEN <<rc>> ELSE <<>>
           /\ disks' = IF rc # 0 THEN disks
                       ELSE [disks EXCEPT
                               ![diskname].partitions[name].fstabId = label,
                               ![diskname].swaps = Append(@, <<name, name>>)]
           /\ pc' = IF rc # 0 THEN "done" ELSE pc
           /\ result' = IF rc # 0 THEN "raised" ELSE result
           /\ ran' = IF rc # 0 THEN [ran EXCEPT ![diskname].result = "raised"]
                     ELSE ran
  /\ swapIdx' = swapIdx + 1
  /\ UNCHANGED <<options, build, module, diskname, system,
                 partitions, idx, primary, logical, startPercent,
                 extensionStart, extensionEnd, swaps, requested, sysvars>>

\* one iteration of the swap pass over self.swaps; the bare except
\* catches a failed mkswap and the pass goes on
SwapPass ==
  /\ pc = "swaps"
  /\ swapIdx <= Len(swaps)
  /\ LET partpartition == swaps[swapIdx][3]
         name == partpartition[1]
         entry == disks[diskname].partitions[name]
         label == Label(name)
     IN  \E rc \in (IF build THEN {0, 1} ELSE {0}) :
           /\ cmds' = IF build
                      THEN Append(cmds, [NoCmd EXCEPT !.tool = "mkswap",
                                           !.part = name, !.arg = name,
                                           !.dev = entry.device])
                      ELSE cmds
           /\ exits' = IF build THEN <<rc>> ELSE <<>>
           /\ disks' = IF rc # 0 THEN disks
                       ELSE [disks EXCEPT
                               ![diskname].partitions[name].fstabId = label,
                               ![diskname].swaps = Append(@, <<name, name>>)]
  /\ swapIdx' = swapIdx + 1
  /\ UNCHANGED <<options, pc, result, build, module, diskname, system,
                 partitions, idx, primary, logical, startPercent,
                 extensionStart, extensionEnd, swaps, requested, ran,
                 sysvars>>

\* the end of _doPartitioning: log.passed(), return self.partEntry
Finish ==
  /\ pc = "swaps"
  /\ swapIdx > Len(swaps)
  /\ pc' = "done"
  /\ result' = "passed"
  /\ ran' = [ran EXCEPT ![diskname].result = "passed"]
  /\ UNCHANGED <<options, disks, build, module, diskname, system,
                 partitions, idx, primary, logical, startPercent,
                 extensionStart, extensionEnd, swaps, swapIdx, cmds, exits,
                 requested, sysvars>>

Next ==
  \/ \E mod \in Modules, bld \in BOOLEAN, sys \in SystemNames,
        dname \in DiskNames :
       Invoke(mod, bld, sys, dname)
  \/ ProcessPartition
  \/ ProbeSettle
  \/ SwapPass
  \/ Finish

Spec == Init /\ [][Next]_vars

\* two identical fresh disks and one option set, for the comparison of runs
InitPair ==
  /\ options \in { [i \in 1..Len(f) |-> <<PartName(i)>> \o f[i]] :
                    f \in SeqsUpTo(Declarations, MaxPairDecls) }
  /\ disks = [d \in {"d1", "d2"} |-> FreshDisk(DevSda, DevSda)]
  /\ InitRun

SpecPair == InitPair /\ [][Next]_vars

\* declarations for the comparison of iteration orders: a flagged
\* primary, a swap primary and an extended one
OrderDeclarations ==
  { Primary01, <<<<"0", "7">>, <<"6", "0", "G">>, "linux-swap">>, Extended2E }

\* two identical fresh disks and two declarations, possibly with the same
\* order token; each run draws the iteration order of the options
InitOrder ==
  /\ options \in { [i \in 1..2 |-> <<PartName(i)>> \o f[i]] :
                    f \in [1..2 -> OrderDeclarations] }
  /\ disks = [d \in {"d1", "d2"} |-> FreshDisk(DevSda, DevSda)]
  /\ InitRun

SpecOrder == InitOrder /\ [][Next]_vars

\* well-formed size requests: a count and a unit
SizeRequests ==
  {IntToStr(n) \o <<u>> : n \in 1..MaxCount, u \in {"M", "G", "T"}}

\* the disk sizes the disk stage may have recorded
DiskSizeChoices == {<<"1", "G">>, DiskSize, <<"1", "T">>}

\* one swap declaration of any size on a disk of any of the sizes
InitSize ==
  /\ options \in { << <<PartName(1), <<"0", "1">>, s, "linux-swap">> >> :
                     s \in SizeRequests }
  /\ disks \in { [d \in {"d1"} |->
                    [FreshDisk(DevSda, DevSda) EXCEPT
                       !.size = GetSizeInBytes(ds)]] :
                   ds \in DiskSizeChoices }
  /\ InitRun

SpecSize == InitSize /\ [][Next]_vars

\* a disk fstab-id that is a label reference already
LabelRoot == <<"L", "A", "B", "E", "L", "=", "r", "o", "o", "t">>

\* a plain or a loop-backed disk whose fstab-id is its device path or a
\* label reference
InitDevices ==
  /\ options \in { [i \in 1..Len(f) |-> <<PartName(i)>> \o f[i]] :
                    f \in SeqsUpTo(Declarations, MaxPairDecls) }
  /\ disks \in { [d \in {"d1"} |->
                    FreshDisk(dev, IF labelled THEN LabelRoot ELSE dev)] :
                   dev \in {DevSda, DevLoop0}, labelled \in BOOLEAN }
  /\ InitRun

SpecDevices == InitDevices /\ [][Next]_vars


\* ------------------------------------------- SystemBuildFileSystem
\* mount points per SystemBuildFileSystem section
MaxMounts == 2

\* the disk names as the characters a mount option spells them with
DiskChars(d) == IF d = "d1" THEN <<"d", "1">> ELSE <<"d", "2">>

\* csmakedevice.split('.', 1): disk name and partition name (None if the
\* option names no partition)
SplitDevice(csmakedevice) ==
  LET dots == {i \in 1..Len(csmakedevice) : csmakedevice[i] = "."}
      k == CHOOSE i \in dots : \A j \in dots : i <= j
  IN  IF dots = {} THEN [disk |-> csmakedevice, part |-> None]
      ELSE [ disk |-> SubSeq(csmakedevice, 1, k - 1),
             part |-> SubSeq(csmakedevice, k + 1, Len(csmakedevice)) ]

\* len(x.split('/'))
MountDepth(mountpt) ==
  1 + Cardinality({i \in 1..Len(mountpt) : mountpt[i] = "/"})

InsertByDepth(x, s) ==
  LET before == {j \in 1..Len(s) : MountDepth(s[j]) <= MountDepth(x)}
      k == IF before = {} THEN 0
           ELSE CHOOSE j \in before : \A i \in before : i <= j
  IN  SubSeq(s, 1, k) \o <<x>> \o SubSeq(s, k + 1, Len(s))

RECURSIVE SortByDepth(_)
\* mountpts.sort(key=lambda x: len(x.split('/'))): a stable sort
SortByDepth(s) ==
  IF s = <<>> THEN <<>>
  ELSE InsertByDepth(s[Len(s)], SortByDepth(SubSeq(s, 1, Len(s) - 1)))

\* the fstypes for which a _labelFileSystem_<fstype> method exists
FsLabelers ==
  {"ext", "ext2", "ext3", "ext4", "btrfs", "vfat", "fat", "NTFS", "jfs",
   "xfs"}

LabelTool(fstype) ==
  CASE fstype \in {"ext", "ext2", "ext3", "ext4"} -> "e2label"
    [] fstype = "btrfs" -> "btrfs"
    [] fstype \in {"vfat", "fat"} -> "fatlabel"
    [] fstype = "NTFS" -> "ntfslabel"
    [] fstype = "jfs" -> "jfs_tune"
    [] OTHER -> "xfs_admin"

LowerCase ==
  <<"a", "b", "c", "d", "e", "f", "g", "h", "i", "j", "k", "l", "m", "n",
    "o", "p", "q", "r", "s", "t", "u", "v", "w", "x", "y", "z">>

UpperCase ==
  <<"A", "B", "C", "D", "E", "F", "G", "H", "I", "J", "K", "L", "M", "N",
    "O", "P", "Q", "R", "S", "T", "U", "V", "W", "X", "Y", "Z">>

\* str.upper()
Upper(str) ==
  [i \in 1..Len(str) |->
     IF \E k \in 1..Len(LowerCase) : LowerCase[k] = str[i]
     THEN UpperCase[CHOOSE k \in 1..Len(LowerCase) : LowerCase[k] = str[i]]
     ELSE str[i]]

\* the label a _labelFileSystem_<fstype> method sets and returns
LabelFileSystem(fstype, fslabel) ==
  IF fstype \in {"vfat", "fat"}
  THEN Upper(SubSeq(fslabel, 1, IF Len(fslabel) < 11 THEN Len(fslabel)
                                ELSE 11))
  ELSE fslabel

NoFsCmd == [tool |-> "", fstype |-> "", dev |-> <<>>, label |-> <<>>]

\* options[mountpt]
FsOptionOf(opts, mountpt) ==
  opts[CHOOSE i \in 1..Len(opts) : opts[i][1] = mountpt][2]

\* mutant: the label is set whatever the fstab-id was
NeedsLabelAlways(oldId) == TRUE

\* '=' not in fstabTarget['fstab-id']
NeedsLabel(oldId) == ~Contains(oldId, <<"=">>)

\* the body of "for mountpt in mountpts" on the run's state st =
\* [status, disks, filesystem, info, cmds]; fields is the option's value
\* after split(','), rc the exit statuses of mkfs and of the label tool
FsMount(st, mountpt, fields, bld, rc) ==
  IF Len(fields) \notin {2, 3} THEN [st EXCEPT !.status = "failed"]
  ELSE
    LET target == SplitDevice(fields[1])
        fstype == fields[2]
        known == {d \in DOMAIN st.disks : DiskChars(d) = target.disk}
    IN  IF known = {} THEN [st EXCEPT !.status = "failed"]
        ELSE
          LET d == CHOOSE x \in known : TRUE
              diskEntry == st.disks[d]
              named == target.part # None
              info0 == Put(st.info, mountpt, [disk |-> d, partition |-> None])
          IN  IF named /\ "partitions" \notin diskEntry.keys
              THEN [st EXCEPT !.status = "raised", !.info = info0]
              ELSE IF named /\ target.part \notin DOMAIN diskEntry.partitions
              THEN [st EXCEPT !.status = "failed", !.info = info0]
              ELSE
                LET device == IF named
                              THEN diskEntry.partitions[target.part].device
                              ELSE diskEntry.device
                    info1 == Put(st.info, mountpt,
                                 [disk |-> d,
                                  partition |-> IF named THEN target.part
                                                ELSE None])
                    fslabel == IF named THEN target.part ELSE target.disk
                    oldId == IF named
                             THEN diskEntry.partitions[target.part].fstabId
                             ELSE diskEntry.fstabId
                    mkfs == IF bld
                            THEN << [NoFsCmd EXCEPT !.tool = "mkfs",
                                       !.fstype = fstype, !.dev = device] >>
                            ELSE <<>>
                    newlabel == LabelFileSystem(fstype, fslabel)
                    labels == NeedsLabel(oldId) /\ fstype \in FsLabelers
                    labelcmd == IF labels /\ bld
                                THEN << [NoFsCmd EXCEPT
                                           !.tool = LabelTool(fstype),
                                           !.dev = device,
                                           !.label = newlabel] >>
                                ELSE <<>>
                    relabelled == labels /\ (bld => rc.label = 0)
                    newId == IF relabelled THEN Label(newlabel) ELSE oldId
                    disks1 == IF ~relabelled THEN st.disks
                              ELSE IF named
                              THEN [st.disks EXCEPT
                                      ![d].partitions[target.part].fstabId
                                        = newId]
                              ELSE [st.disks EXCEPT ![d].fstabId = newId]
                IN  IF bld /\ rc.mkfs # 0
                    THEN [st EXCEPT !.status = "raised", !.info = info1,
                                    !.cmds = @ \o mkfs]
                    ELSE IF oldId = None
                    THEN [st EXCEPT !.status = "raised", !.info = info1,
                                    !.cmds = @ \o mkfs]
                    ELSE [ status |-> "next",
                           disks |-> disks1,
                           filesystem |->
                             Put(st.filesystem, mountpt,
                                 <<mountpt, device, fstype, newId>>),
                           info |-> info1,
                           cmds |-> st.cmds \o mkfs \o labelcmd ]

RECURSIVE FsLoop(_, _, _, _, _, _)
\* the for loop over the sorted mount points from position k on
FsLoop(st, mountpts, k, opts, bld, rcs) ==
  IF k > Len(mountpts) \/ st.status # "next" THEN st
  ELSE FsLoop(FsMount(st, mountpts[k], FsOptionOf(opts, mountpts[k]), bld,
                      rcs[k]),
              mountpts, k + 1, opts, bld, rcs)

\* mutant: the test for an existing 'filesystem' entry is missing
NoFilesystemYet(entry) == TRUE

\* 'filesystem' not in systemEntry
FilesystemUndefined(entry) == "filesystem" \notin entry.keys

\* _createFileSystemRecord: build, system_build (bld) or use_system_build
CreateFileSystemRecord(bld, sys) ==
  /\ pc \in {"idle", "done"}
  /\ joinpoint' = NoJoinpoint
  /\ UNCHANGED <<partvars, fsOptions, aspectOptions, env, efiOptions, grub>>
  /\ IF ~SystemDefined(sys) \/ ~FilesystemUndefined(systemEntry)
     THEN /\ fsRun' = [system |-> sys, build |-> bld, result |-> "failed",
                       cmds |-> <<>>]
          /\ UNCHANGED <<disks, systemEntry>>
     ELSE LET mountpts == SortByDepth([i \in 1..Len(fsOptions) |->
                                        fsOptions[i][1]])
              st0 == [ status |-> "next", disks |-> disks,
                       filesystem |-> <<>>, info |-> <<>>, cmds |-> <<>> ]
          IN  \E st \in { FsLoop(st0, mountpts, 1, fsOptions, bld, rcs) :
                            rcs \in [1..Len(mountpts) ->
                                       IF bld
                                       THEN [mkfs : {0, 1}, label : {0, 1}]
                                       ELSE {[mkfs |-> 0, label |-> 0]}] } :
                /\ disks' = st.disks
                /\ systemEntry' =
                     [ keys |-> {"filesystem", "filesystem-info"},
                       filesystem |-> st.filesystem, info |-> st.info ]
                /\ fsRun' =
                     [ system |-> sys, build |-> bld,
                       result |-> IF st.status = "next" THEN "passed"
                                  ELSE st.status,
                       cmds |-> IF st.status = "next"
                                THEN Append(st.cmds,
                                            [NoFsCmd EXCEPT !.tool = "sync"])
                                ELSE st.cmds ]

\* the values a mount point option may have: <disk>[.<partition>], fstype
\* and, possibly, mkfs options
MountValues ==
  { << <<"d", "1", ".", "p", "1">>, "ext4" >>,
    << <<"d", "1", ".", "p", "2">>, "vfat", "-F 32" >>,
    << <<"d", "1">>, "ext2" >>,
    << <<"d", "1", ".", "p", "1">>, "reiserfs" >>,
    << <<"d", "1", ".", "p", "9">>, "ext4" >>,
    << <<"d", "1", ".", "p", "1">> >> }

MountPointNames ==
  << <<"/">>, <<"/", "b", "o", "o", "t">>,
     <<"/", "b", "o", "o", "t", "/", "e", "f", "i">>,
     <<"/", "h", "o", "m", "e">> >>

\* the mount options of a section: '/' and up to MaxMounts - 1 others,
\* each with one of the values, in either order of presentation
FsOptionSets ==
  { [i \in 1..Len(f) |->
       LET k == IF rev THEN Len(f) + 1 - i ELSE i
       IN  <<MountPointNames[k], f[k]>>] :
      f \in SeqsUpTo(MountValues, MaxMounts) \ {<<>>}, rev \in BOOLEAN }

\* the disk record a passed build-mode run of the partitioner leaves for
\* part_p1 = 01,10G,ext4,boot and part_p2 = 07,60G,linux-swap
PartitionedDisk(device, fstabId) ==
  LET p1 == <<PartName(1)>> \o Primary01
      p2 == <<PartName(2), <<"0", "7">>, <<"6", "0", "G">>, "linux-swap">>
      e1 == CreatePartitionEntry(p1, 1, device, fstabId)
      e2 == [CreatePartitionEntry(p2, 2, device, fstabId) EXCEPT
               !.fstabId = Label(PartName(2))]
  IN  [ FreshDisk(device, fstabId) EXCEPT
          !.keys = {"partitions", "swaps"},
          !.partitions = Put(Put(<<>>, PartName(1), e1), PartName(2), e2),
          !.swaps = <<<<PartName(2), PartName(2)>>>> ]

\* a partitioned disk, plain or with a label reference as its fstab-id,
\* and a SystemBuildFileSystem section
InitFs ==
  /\ options = <<>>
  /\ disks \in { [d \in {"d1"} |->
                    PartitionedDisk(DevSda, IF labelled THEN LabelRoot
                                            ELSE DevSda)] :
                   labelled \in BOOLEAN }
  /\ InitPartitioner
  /\ fsOptions \in FsOptionSets
  /\ systemEntry = FreshSystem
  /\ fsRun = NoFsRun
  /\ aspectOptions = <<>>
  /\ env = <<>>
  /\ joinpoint = NoJoinpoint
  /\ efiOptions = <<>>
  /\ grub = NoGrub

NextFs ==
  \E bld \in BOOLEAN, sys \in SystemNames : CreateFileSystemRecord(bld, sys)

SpecFs == InitFs /\ [][NextFs]_vars

\* ------------------------------------ SystemBuildGetPartitionDevices
\* option.startswith(prefix)
StartsWith(str, prefix) ==
  Len(str) >= Len(prefix) /\ SubSeq(str, 1, Len(prefix)) = prefix

\* str.lstrip(chars): drops every leading character that is in chars
LStrip(str, chars) ==
  LET kept == {i \in 1..Len(str) : str[i] \notin chars}
  IN  IF kept = {} THEN <<>>
      ELSE SubSeq(str, CHOOSE i \in kept : \A j \in kept : i <= j, Len(str))

EnvPrefix == <<"e", "n", "v", "_">>

\* _getEnvironmentVariables: (option.lstrip('env_'), envvar) for every
\* option that starts with 'env_', in the order of options.iteritems()
RECURSIVE GetEnvironmentVariables(_)
GetEnvironmentVariables(opts) ==
  IF opts = <<>> THEN <<>>
  ELSE LET rest == GetEnvironmentVariables(SubSeq(opts, 1, Len(opts) - 1))
           last == opts[Len(opts)]
       IN  IF StartsWith(last[1], EnvPrefix)
           THEN Append(rest, <<LStrip(last[1], {"e", "n", "v", "_"}),
                               last[2]>>)
           ELSE rest

Undefined == <<"<undefined>">>

DeviceNotFound == <<"## Device not found">>

RECURSIVE StartLoop(_, _, _)
\* start: self.env.env[env] = "<undefined>" for every variable from k on
StartLoop(e, envvars, k) ==
  IF k > Len(envvars) THEN e
  ELSE StartLoop(Put(e, envvars[k][2], Undefined), envvars, k + 1)

RECURSIVE StartBuildLoop(_, _, _, _)
\* start__build: the device of the mount point, or the not-found text,
\* for every variable from k on
StartBuildLoop(e, envvars, k, filesystem) ==
  IF k > Len(envvars) THEN e
  ELSE LET mpt == envvars[k][1]
           value == IF mpt \in DOMAIN filesystem THEN filesystem[mpt][2]
                    ELSE DeviceNotFound
       IN  StartBuildLoop(Put(e, envvars[k][2], value), envvars, k + 1,
                          filesystem)

\* mutant: end leaves the variables in the environment
EndLoopKeeps(e, envvars) == e

\* end: del self.env.env[env] for every variable that is present
EndLoop(e, envvars) ==
  LET named == {envvars[k][2] : k \in 1..Len(envvars)}
  IN  [v \in DOMAIN e \ named |-> e[v]]

Phases == {"build", "system_build", "use_system_build", "clean"}

\* the phases for which the class has start__<phase> and end__<phase>
BuildPhases == {"build", "system_build", "use_system_build"}

\* start__build, also reached as start__system_build and
\* start__use_system_build and from start; handler names the method called
StartBuildAs(handler, phase, sys) ==
  /\ pc \in {"idle", "done"}
  /\ UNCHANGED <<partvars, disks, fsOptions, systemEntry, fsRun,
                 aspectOptions, efiOptions, grub>>
  /\ LET envvars == GetEnvironmentVariables(aspectOptions)
     IN  IF ~SystemDefined(sys)
            \/ (envvars # <<>> /\ FilesystemUndefined(systemEntry))
         THEN /\ joinpoint' = [name |-> handler, phase |-> phase,
                               result |-> "failed",
                               prev |-> joinpoint.name]
              /\ UNCHANGED env
         ELSE /\ joinpoint' = [name |-> handler, phase |-> phase,
                               result |-> "passed",
                               prev |-> joinpoint.name]
              /\ env' = StartBuildLoop(env, envvars, 1,
                                       systemEntry.filesystem)

\* start__build, start__system_build, start__use_system_build
StartBuild(phase, sys) ==
  /\ phase \in BuildPhases
  /\ StartBuildAs("start__", phase, sys)

\* start
Start(phase, sys) ==
  IF phase \in {"build", "system_build"}
  THEN StartBuildAs("start", phase, sys)
  ELSE /\ pc \in {"idle", "done"}
       /\ UNCHANGED <<partvars, disks, fsOptions, systemEntry, fsRun,
                      aspectOptions, efiOptions, grub>>
       /\ env' = StartLoop(env, GetEnvironmentVariables(aspectOptions), 1)
       /\ joinpoint' = [name |-> "start", phase |-> phase,
                        result |-> "passed", prev |-> joinpoint.name]

\* end and, for handler "end__", end__build, end__system_build and
\* end__use_system_build
End(handler, phase) ==
  /\ pc \in {"idle", "done"}
  /\ handler = "end__" => phase \in BuildPhases
  /\ UNCHANGED <<partvars, disks, fsOptions, systemEntry, fsRun,
                 aspectOptions, efiOptions, grub>>
  /\ env' = EndLoop(env, GetEnvironmentVariables(aspectOptions))
  /\ joinpoint' = [name |-> handler, phase |-> phase, result |-> "passed",
                   prev |-> joinpoint.name]

EnvRoot == EnvPrefix \o MountPointNames[1]

EnvBoot == EnvPrefix \o MountPointNames[2]

EnvHome == EnvPrefix \o MountPointNames[4]

\* the options of a section (the system option apart) in the order
\* options.iteritems() yields them: one or two variables, an option that
\* is no env_ option, a mount point with no file system, one variable
\* named for two mount points, and a mount point spelt without its '/' 
AspectOptionSets ==
  { << <<EnvRoot, "ROOT_DEV">> >>,
    << <<EnvRoot, "ROOT_DEV">>, <<EnvBoot, "BOOT_DEV">> >>,
    << <<<<"n", "o", "t", "e">>, "NOTE">>, <<EnvHome, "HOME_DEV">>,
       <<EnvRoot, "ROOT_DEV">> >>,
    << <<EnvRoot, "DEV">>, <<EnvBoot, "DEV">> >>,
    << <<EnvBoot, "DEV">>, <<EnvRoot, "DEV">> >>,
    << <<EnvPrefix \o <<"e", "f", "i">>, "EFI_DEV">>,
       <<EnvRoot, "ROOT_DEV">> >> }

\* the environment before the section: empty, or with the variables
\* already in use
InitEnvs ==
  { <<>>, [v \in {"ROOT_DEV", "DEV", "PATH"} |-> <<"o", "l", "d">>] }

\* the file system sections the aspect is used with
AspectFsOptionSets ==
  { << <<MountPointNames[1], << <<"d", "1", ".", "p", "1">>, "ext4" >> >> >>,
    << <<MountPointNames[1], << <<"d", "1", ".", "p", "1">>, "ext4" >> >>,
       <<MountPointNames[2],
         << <<"d", "1", ".", "p", "2">>, "vfat", "-F 32" >> >> >>,
    << <<MountPointNames[1], << <<"d", "1">>, "ext2" >> >>,
       <<MountPointNames[2], << <<"d", "1", ".", "p", "9">>, "ext4" >> >> >> }

InitAspect ==
  /\ options = <<>>
  /\ disks = [d \in {"d1"} |-> PartitionedDisk(DevSda, DevSda)]
  /\ InitPartitioner
  /\ fsOptions \in AspectFsOptionSets
  /\ systemEntry = FreshSystem
  /\ fsRun = NoFsRun
  /\ aspectOptions \in AspectOptionSets
  /\ env \in InitEnvs
  /\ joinpoint = NoJoinpoint
  /\ efiOptions = <<>>
  /\ grub = NoGrub

NextAspect ==
  \/ \E bld \in BOOLEAN, sys \in SystemNames : CreateFileSystemRecord(bld, sys)
  \/ \E phase \in Phases, sys \in SystemNames : Start(phase, sys)
  \/ \E phase \in Phases, sys \in SystemNames : StartBuild(phase, sys)
  \/ \E handler \in {"end", "end__"}, phase \in Phases : End(handler, phase)

SpecAspect == InitAspect /\ [][NextAspect]_vars

\* --------------------------------------- SystemBuildEfiGrubInstall
\* calls of build per section instance
MaxGrubBuilds == 2

\* str.strip('/')
StripSlashes(str) ==
  LET kept == {i \in 1..Len(str) : str[i] # "/"}
  IN  IF kept = {} THEN <<>>
      ELSE SubSeq(str, CHOOSE i \in kept : \A j \in kept : i <= j,
                  CHOOSE i \in kept : \A j \in kept : j <= i)

\* os.path.join(a, b)
PathJoin(a, b) ==
  IF b # <<>> /\ b[1] = "/" THEN b
  ELSE IF a = <<>> \/ a[Len(a)] = "/" THEN a \o b
  ELSE a \o <<"/">> \o b

\* bootName of build: 'boot' unless the option 'boot-name' is given
BootName(opts) ==
  IF "boot-name" \in DOMAIN opts THEN opts["boot-name"]
  ELSE <<"b", "o", "o", "t">>

\* os.path.join('/EFI', bootName, 'grubx64.efi')
PathToEfi(bootName) ==
  PathJoin(PathJoin(<<"/", "E", "F", "I">>, bootName),
           <<"g", "r", "u", "b", "x", "6", "4", ".", "e", "f", "i">>)

\* os.path.join(self.systemPartition, efi-directory.strip('/'),
\* 'startup.nsh')
PathToStartup(systemPartition, efiDirectory) ==
  PathJoin(PathJoin(systemPartition, StripSlashes(efiDirectory)),
           <<"s", "t", "a", "r", "t", "u", "p", ".", "n", "s", "h">>)

\* the mounted system partitions SystemBuildGrubInstall.build may leave
\* in self.systemPartition
SystemPartitions == { <<"/", "m", "n", "t">>, <<"/", "t", "m", "p", "/">> }

\* build (entry "build") and package_vm (entry "package_vm"): base is the
\* outcome of SystemBuildGrubInstall.build, mv the exit status of the mv
EfiBuild(entry, base, systemPartition, mv) ==
  /\ pc \in {"idle", "done"}
  /\ Len(grub.GRUB_OPTIONS) < Len(EFI_GRUB_OPTIONS) + 4 * MaxGrubBuilds
  /\ UNCHANGED <<partvars, disks, fsOptions, systemEntry, fsRun,
                 aspectOptions, env, joinpoint, efiOptions>>
  /\ LET bootName == BootName(efiOptions)
         opts == grub.GRUB_OPTIONS
                   \o <<"--efi-directory", efiOptions["efi-directory"],
                        "--bootloader-id", bootName>>
     IN  IF base = "raised"
         THEN grub' = [grub EXCEPT !.GRUB_OPTIONS = opts, !.entry = entry,
                                   !.result = "raised",
                                   !.bootloaderId = bootName]
         ELSE grub' =
                [ GRUB_OPTIONS |-> opts,
                  entry |-> entry,
                  result |-> "done",
                  bootloaderId |-> bootName,
                  mv |-> mv,
                  startup |-> IF mv = 0 THEN PathToEfi(bootName)
                              ELSE grub.startup,
                  startupPath |->
                    PathToStartup(systemPartition,
                                  efiOptions["efi-directory"]) ]

\* the values of the options of a section
EfiDirectories ==
  { <<"/", "b", "o", "o", "t", "/", "e", "f", "i">>,
    <<"/", "e", "f", "i", "/">>, <<"e", "f", "i">> }

BootNames == { <<"u", "b", "u", "n", "t", "u">>, <<"b", "o", "o", "t">> }

\* the sections: efi-directory, and efi-boot-name and boot-name or not
EfiOptionSets ==
  { [k \in {"efi-directory"} \cup given |->
       CASE k = "efi-directory" -> dir
         [] k = "efi-boot-name" -> documented
         [] OTHER -> undocumented] :
      dir \in EfiDirectories, documented \in BootNames,
      undocumented \in BootNames,
      given \in SUBSET {"efi-boot-name", "boot-name"} }

InitEfi ==
  /\ options = <<>>
  /\ disks = [d \in {"d1"} |-> PartitionedDisk(DevSda, DevSda)]
  /\ InitPartitioner
  /\ fsOptions = <<>>
  /\ systemEntry = FreshSystem
  /\ fsRun = NoFsRun
  /\ aspectOptions = <<>>
  /\ env = <<>>
  /\ joinpoint = NoJoinpoint
  /\ efiOptions \in EfiOptionSets
  /\ grub = NoGrub

NextEfi ==
  \E entry \in {"build", "package_vm"}, base \in {"ok", "raised"},
     systemPartition \in SystemPartitions, mv \in {0, 1} :
    EfiBuild(entry, base, systemPartition, mv)

SpecEfi == InitEfi /\ [][NextEfi]_vars

\* ------------------------------------------------------------- claims
\* the class of the declaration part_<name>
ClassOfName(name) ==
  ClassOf(options[CHOOSE i \in 1..Len(options) : options[i][1] = name][2])

\* how many of the first i sorted declarations are primary or extended
TopRank(i) ==
  Cardinality({j \in 1..i : ClassOf(partitions[j][2]) # "logical"})

\* how many of the first i sorted declarations are logical
LowRank(i) ==
  Cardinality({j \in 1..i : ClassOf(partitions[j][2]) = "logical"})

\* the positions in cmds of the create-partition calls of the given classes
Mkparts(classes) ==
  {i \in 1..Len(cmds) : cmds[i].tool = "mkpart" /\ cmds[i].parttype \in classes}

\* the create-partition calls of the given classes that exited 0: exits
\* holds the statuses of the last step's commands, and a run does not
\* get past a create-partition call that failed
CreatedBy(classes) ==
  {i \in Mkparts(classes) :
     i > Len(cmds) - Len(exits) => exits[i - (Len(cmds) - Len(exits))] = 0}

\* the documented shape <ex>E:<logical>L that the loop accepts
LogicalShape(token) ==
  Len(token) >= 4 /\ token[2] = "E" /\ token[3] = ":"

\* C1: in every state, on every disk, no two partition records have the
\* same number; the numbers of the primary and extended records are
\* 1..k and those of the logical records are 5..4+m.
C1_NumbersUnique ==
  \A d \in DOMAIN disks :
    LET recs == disks[d].partitions
        names == DOMAIN recs
        top == {n \in names : ClassOfName(n) # "logical"}
        low == names \ top
    IN  /\ \A a \in names, b \in names :
             a # b => recs[a].number # recs[b].number
        /\ {recs[n].number : n \in top} = 1..Cardinality(top)
        /\ {recs[n].number : n \in low} = 5..(4 + Cardinality(low))

\* a build-mode run has passed with four primary/extended records and at
\* least one logical record
C1_Witness ==
  /\ pc = "done" /\ result = "passed" /\ build
  /\ LET names == DOMAIN disks[diskname].partitions
     IN  /\ Cardinality({n \in names : ClassOfName(n) # "logical"}) = 4
         /\ \E n \in names : ClassOfName(n) = "logical"

\* C2: when a run on an MSDOS disk has passed, the declarations were
\* processed in ascending order of their order tokens, the k-th primary or
\* extended one of that sequence has number k and the k-th logical one
\* has number 4+k.
C2_NumbersFollowSortedOrder ==
  (pc = "done" /\ result = "passed" /\ module = Msdos) =>
    /\ \A i \in 1..Len(partitions), j \in 1..Len(partitions) :
         i < j => ~StrLess(partitions[j][2], partitions[i][2])
    /\ \A i \in 1..Len(partitions) :
         disks[diskname].partitions[partitions[i][1]].number =
           IF ClassOf(partitions[i][2]) = "logical" THEN 4 + LowRank(i)
           ELSE TopRank(i)

\* a passed MSDOS run in which token 2E got number 1 and token 2E:9L
\* number 5
C2_Witness ==
  /\ pc = "done" /\ result = "passed" /\ module = Msdos
  /\ \E i \in 1..Len(partitions), j \in 1..Len(partitions) :
       /\ partitions[i][2] = <<"2", "E">>
       /\ disks[diskname].partitions[partitions[i][1]].number = 1
       /\ partitions[j][2] = <<"2", "E", ":", "9", "L">>
       /\ disks[diskname].partitions[partitions[j][1]].number = 5

\* C3: in a build-mode run, of any two primary or extended partitions
\* created, the later one starts at or after the end of the earlier one.
C3_TopLevelExtentsDisjoint ==
  build =>
    \A i \in CreatedBy({"primary", "extended"}),
       j \in CreatedBy({"primary", "extended"}) :
      i < j => cmds[j].start >= cmds[i].end

\* C4: in a build-mode run every logical create-partition call has an
\* extent inside that of the extended call before it, the first logical
\* starts at the extended start and each later one where the previous
\* logical ended.
C4_LogicalsInsideExtended ==
  build =>
    \A j \in Mkparts({"logical"}) :
      /\ \E e \in Mkparts({"extended"}) :
           /\ e < j
           /\ cmds[e].start <= cmds[j].start
           /\ cmds[j].start <= cmds[j].end
           /\ cmds[j].end <= cmds[e].end
           /\ (\A k \in Mkparts({"logical"}) : k >= j)
                => cmds[j].start = cmds[e].start
      /\ \A k \in Mkparts({"logical"}) :
           (k < j /\ \A m \in Mkparts({"logical"}) : ~(k < m /\ m < j))
             => cmds[j].start = cmds[k].end

\* two logical partitions were created and the second was cut at the end
\* of the extended partition
C4_Witness ==
  /\ build
  /\ \E e \in Mkparts({"extended"}), j \in Mkparts({"logical"}),
        k \in Mkparts({"logical"}) :
       /\ e < j /\ j < k
       /\ cmds[k].start > cmds[e].start
       /\ cmds[k].end = cmds[e].end
       /\ cmds[k].end > cmds[k].start
       /\ cmds[k].end - cmds[k].start < cmds[j].end - cmds[j].start

\* C5: when a build-mode run and a reuse-mode run of the same module have
\* passed on two identical fresh disks with the same sorted declarations,
\* the two 'partitions' mappings are equal.
C5_ReuseMatchesBuild ==
  \A d \in DOMAIN ran, e \in DOMAIN ran :
    ( /\ ran[d].build /\ ~ran[e].build
      /\ ran[d].result = "passed" /\ ran[e].result = "passed"
      /\ ran[d].module = ran[e].module
      /\ ran[d].partitions = ran[e].partitions )
    => disks[d].partitions = disks[e].partitions

\* a declaration that is not extended and whose type resolves to swap
IsSwapPart(p) ==
  /\ ClassOf(p[2]) # "extended"
  /\ p[4] \in DOMAIN PART_FSTYPES
  /\ PART_FSTYPES[p[4]] = "linux-swap"

\* C6: after a passed run in either mode every swap declaration has
\* fstab-id LABEL=<name>, 'swaps' lists exactly the swap declarations in
\* creation order, and mkswap was issued only in build mode.
C6_SwapsLabelled ==
  (pc = "done" /\ result = "passed") =>
    LET sel == SelectSeq(partitions, IsSwapPart)
    IN  /\ \A i \in 1..Len(sel) :
             disks[diskname].partitions[sel[i][1]].fstabId = Label(sel[i][1])
        /\ disks[diskname].swaps =
             [i \in 1..Len(sel) |-> <<sel[i][1], sel[i][1]>>]
        /\ ~build => \A i \in 1..Len(cmds) : cmds[i].tool # "mkswap"

\* C7: on an MSDOS disk the loop never gets past a fifth primary/extended
\* declaration; the run ends failed at it with no create-partition call
\* for it, and the records are those of the declarations before it, the
\* four primary/extended ones numbered 1 to 4.
C7_FifthSlotRejected ==
  (module = Msdos /\ pc # "idle") =>
    /\ TopRank(idx - 1) <= 4
    /\ ( /\ pc = "done" /\ idx <= Len(partitions)
         /\ ClassOf(partitions[idx][2]) # "logical"
         /\ TopRank(idx) = 5 )
       => LET recs == disks[diskname].partitions
              top == {n \in DOMAIN recs : ClassOfName(n) # "logical"}
          IN  /\ result = "failed"
              /\ \A i \in Mkparts({"primary", "extended", "logical"}) :
                   cmds[i].part # partitions[idx][1]
              /\ DOMAIN recs = {partitions[j][1] : j \in 1..(idx - 1)}
              /\ Cardinality(top) = 4
              /\ {recs[n].number : n \in top} = 1..4

\* a build-mode MSDOS run has ended failed at its fifth primary/extended
\* declaration
C7_Witness ==
  /\ module = Msdos /\ build /\ pc = "done" /\ result = "failed"
  /\ idx <= Len(partitions)
  /\ ClassOf(partitions[idx][2]) # "logical"
  /\ TopRank(idx) = 5
  /\ Cardinality(DOMAIN disks[diskname].partitions) = 4

\* C8: a logical declaration (of the documented shape) with no extended
\* declaration sorted before it is never got past, and the run ends at it
\* failed with no tool command issued at all.
C8_NoToolBeforeOrphanLogical ==
  \A i \in 1..Len(partitions) :
    ( /\ ClassOf(partitions[i][2]) = "logical"
      /\ LogicalShape(partitions[i][2])
      /\ \A j \in 1..(i - 1) : ClassOf(partitions[j][2]) # "extended" )
    => /\ idx <= i
       /\ (pc = "done" /\ idx = i)
            => (result \in {"failed", "raised"} /\ cmds = <<>>)

\* C9: in every state, in either mode, a record of a logical declaration
\* is in 'partitions' only together with a record of an extended one.
C9_LogicalNeedsExtended ==
  \A d \in DOMAIN disks :
    \A n \in DOMAIN disks[d].partitions :
      ClassOfName(n) = "logical"
        => \E m \in DOMAIN disks[d].partitions : ClassOfName(m) = "extended"

\* C10: in every state, in either mode, 'partitions' holds at most one
\* record of an extended declaration.
C10_OneExtended ==
  \A d \in DOMAIN disks :
    Cardinality({n \in DOMAIN disks[d].partitions :
                   ClassOfName(n) = "extended"}) <= 1

\* C11: under the GPT policy the loop never gets past a declaration whose
\* order token ends in L or E; in either mode the run ends failed at it,
\* with no create-partition call for it and no record for it, and the
\* records are exactly those of the declarations sorted before it.
C11_GptRejectsLogicalExtended ==
  (module = Gpt /\ pc # "idle") =>
    /\ \A j \in 1..(idx - 1) : ClassOf(partitions[j][2]) = "primary"
    /\ ( /\ pc = "done" /\ idx <= Len(partitions)
         /\ ClassOf(partitions[idx][2]) # "primary" )
       => /\ result = "failed"
          /\ \A i \in Mkparts({"primary", "extended", "logical"}) :
               cmds[i].part # partitions[idx][1]
          /\ DOMAIN disks[diskname].partitions =
               {partitions[j][1] : j \in 1..(idx - 1)}

\* a GPT run in build mode has ended failed at a declaration ending in E
\* after the primary declaration sorted before it got its record
C11_Witness ==
  /\ module = Gpt /\ build /\ pc = "done" /\ result = "failed"
  /\ idx = 2 /\ idx <= Len(partitions)
  /\ ClassOf(partitions[idx][2]) = "extended"
  /\ DOMAIN disks[diskname].partitions = {partitions[1][1]}

\* C12: an invocation (any phase, any module) on a disk whose record
\* already has 'partitions' ends failed, issues no tool command and leaves
\* every disk record, 'partitions' and 'swaps' included, as it was.
C12_NoReentry ==
  [][ ( /\ pc \in {"idle", "done"}
        /\ diskname' \in DOMAIN disks
        /\ "partitions" \in disks[diskname'].keys )
      => ( /\ pc' = "done" /\ result' = "failed"
           /\ cmds' = <<>>
           /\ disks' = disks ) ]_vars

\* an invocation naming a defined system has failed on a disk that holds
\* the records and the swap list of an earlier passed run
C12_Witness ==
  /\ pc = "done" /\ result = "failed" /\ cmds = <<>>
  /\ system \in DefinedSystems
  /\ diskname \in DOMAIN disks
  /\ ran[diskname].result = "passed"
  /\ disks[diskname].partitions # <<>>
  /\ disks[diskname].swaps # <<>>

\* C13: an invocation whose system has no shared-state entry, or whose
\* disk is not among the system's disks, ends failed, issues no tool
\* command and leaves the shared state as it was: no disk gets a
\* 'partitions' or 'swaps' key.
C13_UnknownTargetFails ==
  [][ ( /\ pc \in {"idle", "done"}
        /\ (system' \notin DefinedSystems \/ diskname' \notin DOMAIN disks) )
      => ( /\ pc' = "done" /\ result' = "failed"
           /\ cmds' = <<>>
           /\ disks' = disks ) ]_vars

\* an invocation with an undefined system has failed and the disk it
\* named, which exists, still has neither key
C13_Witness ==
  /\ pc = "done" /\ result = "failed" /\ cmds = <<>>
  /\ system \notin DefinedSystems
  /\ diskname \in DOMAIN disks
  /\ disks[diskname].keys = {}

\* C14: every call of _getRequestedPercentage with a well-formed size and
\* a positive disk size returns an integer from 1 to 100, also when the
\* size requested is larger than the disk.
C14_PercentInRange ==
  requested.size # <<>> => requested.percent \in 1..100

\* C15: _getRequestedPercentage returns round(bytes*100/diskSize) (half
\* away from zero) with no warning when that is at least 1, and 1 with a
\* warning when it is 0; after a warning the run fails only if the
\* create-partition command itself does, and otherwise the partition is
\* created one percent wide and gets its record.
C15_RoundedOrClamped ==
  requested.size # <<>> =>
    LET n == GetSizeInBytes(requested.size)
        d == requested.disksize
        r == requested.percent
        RoundsTo(k) == 2 * k * d - d <= 200 * n /\ 200 * n < 2 * k * d + d
        last == cmds[Len(cmds)]
    IN  /\ IF RoundsTo(0) THEN r = 1 /\ requested.warned
           ELSE r >= 1 /\ RoundsTo(r) /\ ~requested.warned
        /\ requested.warned =>
             IF result \in {"failed", "raised"}
             THEN last.tool = "mkpart" /\ exits = <<1>>
             ELSE /\ \E i \in Mkparts({"primary"}) :
                       cmds[i].start = 0 /\ cmds[i].end = 1
                  /\ partitions[1][1] \in DOMAIN disks[diskname].partitions

\* 1M on a 1T disk resolved to 1 with the warning, and the build-mode run
\* passed with the partition's record
C15_Witness ==
  /\ build /\ pc = "done" /\ result = "passed"
  /\ requested.size = <<"1", "M">>
  /\ requested.disksize = GetSizeInBytes(<<"1", "T">>)
  /\ requested.percent = 1 /\ requested.warned
  /\ partitions[1][1] \in DOMAIN disks[diskname].partitions

\* C16: every partition record's 'device' is the disk device followed by
\* the record's number, with the letter p between them exactly when the
\* disk device is the loop device.
C16_DeviceSuffix ==
  \A d \in DOMAIN disks :
    \A n \in DOMAIN disks[d].partitions :
      LET rec == disks[d].partitions[n]
      IN  rec.device =
            disks[d].device
              \o (IF disks[d].device = DevLoop0 THEN <<"p">> ELSE <<>>)
              \o IntToStr(rec.number)

\* a record on /dev/loop0 has device /dev/loop0p1
C16_Witness ==
  /\ disks["d1"].device = DevLoop0
  /\ \E n \in DOMAIN disks["d1"].partitions :
       /\ disks["d1"].partitions[n].number = 1
       /\ disks["d1"].partitions[n].device =
            <<"/", "d", "e", "v", "/", "l", "o", "o", "p", "0", "p", "1">>

\* C17: a record the loop has emitted has the disk's fstab-id unchanged
\* when that holds no '=', and otherwise a reference derived from the
\* disk's fstab-id and the partition number.
C17_FstabIdPropagated ==
  pc = "loop" =>
    \A n \in DOMAIN disks[diskname].partitions :
      LET rec == disks[diskname].partitions[n]
          id == disks[diskname].fstabId
          num == IntToStr(rec.number)
      IN  IF ~Contains(id, <<"=">>) THEN rec.fstabId = id
          ELSE /\ rec.fstabId # None
               /\ Len(rec.fstabId) >= Len(id) + Len(num)
               /\ SubSeq(rec.fstabId, 1, Len(id)) = id
               /\ SubSeq(rec.fstabId, Len(rec.fstabId) - Len(num) + 1,
                         Len(rec.fstabId)) = num

\* the commands the last step issued, paired with their exit statuses:
\* the positions k of exits, the command being cmds[LastBase + k]
LastBase == Len(cmds) - Len(exits)

\* the last step ran a command of one of the tools that exited non-zero
LastFailed(tools) ==
  \E k \in 1..Len(exits) :
    cmds[LastBase + k].tool \in tools /\ exits[k] # 0

\* C18: in build mode a 'set <flag> on' command that exits non-zero does
\* not abort the run, and the declaration it belongs to gets its record.
C18_FlagFailureNotFatal ==
  build =>
    \A k \in 1..Len(exits) :
      (cmds[LastBase + k].tool = "set" /\ exits[k] # 0)
        => /\ result \notin {"failed", "raised"}
           /\ cmds[LastBase + k].part \in DOMAIN disks[diskname].partitions

\* the commands run by subprocess.call, whose exit status is only logged
BestEffortTools == {"name", "sfdisk", "gfdisk", "partprobe", "settle"}

\* the commands run by subprocess.check_call in and before the loop
MustSucceedTools == {"mklabel", "mkpart", "set"}

\* C19: in build mode a non-zero exit of the name command, of the
\* secondary type-code command, of partprobe or of settle never aborts:
\* a run that ends failed or raised ends at a validation error or at a
\* failed must-succeed command; a step in which only such commands failed
\* emits its record and the run goes on; and a passed run has run probe,
\* settle and the swap pass and holds a record of every declaration.
C19_BestEffortNeverAborts ==
  build =>
    /\ (pc = "done" /\ result \in {"failed", "raised"})
         => \/ exits = <<>>
            \/ /\ cmds[Len(cmds)].tool \in MustSucceedTools
               /\ exits[Len(exits)] # 0
    /\ (LastFailed(BestEffortTools) /\ ~LastFailed(MustSucceedTools))
         => /\ result \notin {"failed", "raised"}
            /\ \A k \in 1..Len(exits) :
                 cmds[LastBase + k].tool \in {"name", "sfdisk", "gfdisk"}
                   => cmds[LastBase + k].part
                        \in DOMAIN disks[diskname].partitions
    /\ (pc = "done" /\ result = "passed")
         => /\ DOMAIN disks[diskname].partitions =
                 {partitions[j][1] : j \in 1..Len(partitions)}
            /\ \E i \in 1..Len(cmds) : cmds[i].tool = "partprobe"
            /\ \E i \in 1..Len(cmds) : cmds[i].tool = "settle"
            /\ \A j \in 1..Len(swaps) :
                 \E i \in 1..Len(cmds) :
                   cmds[i].tool = "mkswap" /\ cmds[i].part = swaps[j][3][1]

\* the name command and the secondary type-code command of the last
\* declaration both exited non-zero, its record is there and the loop is
\* through
C19_Witness ==
  /\ build /\ pc = "loop" /\ idx > Len(partitions) /\ Len(partitions) >= 2
  /\ LastFailed({"name"}) /\ LastFailed({"sfdisk", "gfdisk"})
  /\ DOMAIN disks[diskname].partitions =
       {partitions[j][1] : j \in 1..Len(partitions)}

\* probe and settle both exited non-zero and the run passed
C19_WitnessProbe ==
  /\ build /\ pc = "done" /\ result = "passed"
  /\ LastFailed({"partprobe"}) /\ LastFailed({"settle"})

\* C20: in build mode, when the create-partition command of a declaration
\* exits non-zero the run is over and failed, that command is the last
\* one issued (no probe, settle or mkswap), and the records are exactly
\* those of the declarations sorted before it.
C20_CreateFailureAborts ==
  (build /\ LastFailed({"mkpart"})) =>
    /\ pc = "done" /\ result = "failed"
    /\ cmds[Len(cmds)].tool = "mkpart"
    /\ \A i \in 1..Len(cmds) :
         cmds[i].tool \notin {"partprobe", "settle", "mkswap"}
    /\ idx <= Len(partitions)
    /\ cmds[Len(cmds)].part = partitions[idx][1]
    /\ DOMAIN disks[diskname].partitions =
         {partitions[j][1] : j \in 1..(idx - 1)}
    /\ disks[diskname].swaps = <<>>

\* the create-partition command of the second of three declarations
\* failed; the first one's record is there
C20_Witness ==
  /\ build /\ LastFailed({"mkpart"})
  /\ pc = "done" /\ result = "failed"
  /\ idx = 2 /\ Len(partitions) >= 3
  /\ DOMAIN disks[diskname].partitions = {partitions[1][1]}

\* the fstab-id _createPartitionEntry gave the record of the j-th entry
\* of self.swaps
EmittedFstabId(j) ==
  CreatePartitionEntry(swaps[j][3], swaps[j][2], disks[diskname].device,
                       disks[diskname].fstabId).fstabId

\* the j-th entry of self.swaps was initialised: labelled and listed
SwapDone(j) ==
  /\ disks[diskname].partitions[swaps[j][3][1]].fstabId
       = Label(swaps[j][3][1])
  /\ \E k \in 1..Len(disks[diskname].swaps) :
       disks[diskname].swaps[k] = <<swaps[j][3][1], swaps[j][3][1]>>

\* the j-th entry of self.swaps was skipped: not listed, fstab-id as
\* emitted
SwapSkipped(j) ==
  /\ disks[diskname].partitions[swaps[j][3][1]].fstabId = EmittedFstabId(j)
  /\ \A k \in 1..Len(disks[diskname].swaps) :
       disks[diskname].swaps[k][1] # swaps[j][3][1]

\* C21: in the swap pass of a build-mode run a mkswap that exits non-zero
\* leaves its partition unlisted with the fstab-id it had, one that exits
\* zero labels and lists its partition, whatever happened to the swaps
\* before it; the pass goes through every swap and the run ends passed.
C21_SwapFailureSkipsOne ==
  ( /\ build /\ swaps # <<>>
    /\ pc \in {"swaps", "done"} /\ idx > Len(partitions) ) =>
    /\ result \in {"none", "passed"}
    /\ pc = "done" => (result = "passed" /\ swapIdx = Len(swaps) + 1)
    /\ \A j \in 1..(swapIdx - 1) : SwapDone(j) \/ SwapSkipped(j)
    /\ (swapIdx > 1 /\ exits = <<0>>) => SwapDone(swapIdx - 1)
    /\ (swapIdx > 1 /\ exits = <<1>>) => SwapSkipped(swapIdx - 1)
    /\ Len(disks[diskname].swaps) <= swapIdx - 1

\* a build-mode run passed in which the first of two swaps failed and the
\* second was labelled and listed
C21_Witness ==
  /\ build /\ pc = "done" /\ result = "passed"
  /\ Len(swaps) = 2
  /\ SwapSkipped(1) /\ SwapDone(2)
  /\ Len(disks[diskname].swaps) = 1

\* the positions of the sorted list that hold the order token
At(token) == {i \in 1..Len(partitions) : partitions[i][2] = token}

\* every declaration with the first token stands before every one with
\* the second
Before(a, b) == \A i \in At(a), j \in At(b) : i < j

\* the names of the create-partition calls issued, in order
CreatedNames ==
  LET M == Mkparts({"primary", "extended", "logical"})
      Nth(k) == CHOOSE i \in M : Cardinality({j \in M : j <= i}) = k
  IN  [k \in 1..Cardinality(M) |-> cmds[Nth(k)].part]

\* C22: the list the loop walks holds every part_ option once, in
\* ascending string order of the order tokens whatever the names and the
\* order of presentation: '10' before '2', '2E' before '2E:1L', '2E:1L'
\* before '3'; the create-partition calls are issued in that order.
C22_LexicographicOrder ==
  pc = "loop" =>
    /\ Len(partitions) = Len(options)
    /\ \A k \in 1..Len(options) :
         \E i \in 1..Len(partitions) : partitions[i] = options[k]
    /\ \A i \in 1..Len(partitions), j \in 1..Len(partitions) :
         i < j => ~StrLess(partitions[j][2], partitions[i][2])
    /\ Before(<<"1", "0">>, <<"2">>)
    /\ Before(<<"2", "E">>, <<"2", "E", ":", "1", "L">>)
    /\ Before(<<"2", "E", ":", "1", "L">>, <<"3">>)
    /\ Before(<<"0", "7">>, <<"1", "0">>)
    /\ CreatedNames =
         [k \in 1..Len(CreatedNames) |-> partitions[k][1]]

\* token 10 was declared as part_p2 after token 2 as part_p1, and was
\* created first in a build-mode run
C22_Witness ==
  /\ build /\ pc = "loop" /\ idx = 3
  /\ Len(options) = 2
  /\ options[1][2] = <<"2">> /\ options[2][2] = <<"1", "0">>
  /\ CreatedNames = <<options[2][1], options[1][1]>>

\* C23: in build mode the first primary or extended partition created
\* starts at 0 and each later one starts exactly where the primary or
\* extended partition created before it ended.
C23_TopLevelNoGaps ==
  build =>
    LET T == CreatedBy({"primary", "extended"})
    IN  \A j \in T :
          IF \A i \in T : i >= j THEN cmds[j].start = 0
          ELSE \E i \in T :
                 /\ i < j
                 /\ \A m \in T : ~(i < m /\ m < j)
                 /\ cmds[j].start = cmds[i].end

\* C24: in build mode the create-partition calls whose start argument is
\* the sector literal PART_FIRST_START are the first one of the run and no
\* other; every other start argument is a percentage.
C24_FirstStartOnlyOnce ==
  build =>
    LET M == Mkparts({"primary", "extended", "logical"})
    IN  \A j \in M :
          IF \A i \in M : i >= j
          THEN cmds[j].startstr = PART_FIRST_START
          ELSE /\ cmds[j].startstr # PART_FIRST_START
               /\ cmds[j].startstr = IntToStr(cmds[j].start) \o <<"%">>

\* C25: in build mode every create-partition call has 0 <= start <= end
\* <= 100, written as such in its end argument, the cursors stay within
\* the disk, and a call whose request passed the bound was issued with
\* the bound as its end and, having exited zero, got its record (unless a
\* flag command of the same declaration failed after it).
C25_ExtentsWithinDisk ==
  build =>
    /\ \A i \in Mkparts({"primary", "extended", "logical"}) :
         /\ 0 <= cmds[i].start /\ cmds[i].start <= cmds[i].end
         /\ cmds[i].end <= 100
         /\ cmds[i].endstr = IntToStr(cmds[i].end) \o <<"%">>
    /\ startPercent \in 0..100
    /\ extensionStart \in -1..100 /\ extensionEnd \in -1..100
    /\ extensionStart <= extensionEnd
    /\ \A i \in CreatedBy({"primary", "extended", "logical"}) :
         (i <= LastBase \/ ~LastFailed({"set"}))
           => cmds[i].part \in DOMAIN disks[diskname].partitions

\* a 60G primary asked for at 60% of a 100G disk was created as 60..100
\* and the loop went on past it
C25_Witness ==
  /\ build /\ pc = "done" /\ result = "passed"
  /\ requested.percent = 60
  /\ \E i \in CreatedBy({"primary"}) :
       /\ cmds[i].start = 60 /\ cmds[i].end = 100
       /\ cmds[i].part \in DOMAIN disks[diskname].partitions

\* <ext-order>E:<logical-order>L with both orders made of digits
DocumentedLogicalShape(token) ==
  \E k \in 2..(Len(token) - 3) :
    /\ token[k] = "E" /\ token[k + 1] = ":" /\ token[Len(token)] = "L"
    /\ \A i \in 1..(k - 1) : IsDigit(token[i])
    /\ \A i \in (k + 2)..(Len(token) - 1) : IsDigit(token[i])

\* the run ended at the declaration at idx with 'format ... is incorrect'
\* or another validation error: failed, and the step issued no command
RejectedAtIdx ==
  /\ pc = "done" /\ result = "failed" /\ exits = <<>>
  /\ idx <= Len(partitions)

\* C26: on an MSDOS disk a declaration whose order token ends in L is
\* rejected by the loop exactly when its token is not of the shape
\* <ext-order>E:<logical-order>L, whatever the length of <ext-order>.
C26_LogicalShapeAccepted ==
  module = Msdos =>
    /\ \A i \in 1..(idx - 1) :
         ClassOf(partitions[i][2]) = "logical"
           => DocumentedLogicalShape(partitions[i][2])
    /\ (RejectedAtIdx /\ ClassOf(partitions[idx][2]) = "logical")
         => ~DocumentedLogicalShape(partitions[idx][2])

\* the disk or partition a mount point's option names
TargetOf(mountpt) == SplitDevice(FsOptionOf(fsOptions, mountpt)[1])

\* the record of that target in the disk records ds
TargetIn(ds, t) ==
  LET d == CHOOSE x \in DOMAIN ds : DiskChars(x) = t.disk
  IN  IF t.part = None THEN ds[d] ELSE ds[d].partitions[t.part]

\* the mount points of the section whose option names the target t
MountsOf(t) ==
  {fsOptions[i][1] : i \in {j \in 1..Len(fsOptions) :
                              SplitDevice(fsOptions[j][2][1]) = t}}

\* C27: a passed SystemBuildFileSystem run leaves, for every mount point,
\* the tuple (mountpoint, device, fstype, fstab-id) with the device of the
\* record the option names and an fstab-id that record had during the
\* run (the final one when no other mount point names the record); a
\* record's fstab-id changes only from a value without '=' to
\* 'LABEL=<label>' of a mount point naming it whose fstype has a labeler,
\* and every other fstab-id stays as it was.
C27_FilesystemTuples ==
  [][ (fsRun'.result = "passed" /\ systemEntry' # systemEntry) =>
        /\ DOMAIN systemEntry'.filesystem =
             {fsOptions[i][1] : i \in 1..Len(fsOptions)}
        /\ \A m \in DOMAIN systemEntry'.filesystem :
             LET e == systemEntry'.filesystem[m]
                 t == TargetOf(m)
                 old == TargetIn(disks, t).fstabId
                 new == TargetIn(disks', t).fstabId
             IN  /\ e[1] = m
                 /\ e[2] = TargetIn(disks, t).device
                 /\ e[3] = FsOptionOf(fsOptions, m)[2]
                 /\ e[4] \in {old, new}
                 /\ MountsOf(t) = {m} => e[4] = new
                 /\ Contains(old, <<"=">>) => new = old
                 /\ new # old =>
                      \E m2 \in MountsOf(t) :
                        LET fstype == FsOptionOf(fsOptions, m2)[2]
                        IN  /\ fstype \in FsLabelers
                            /\ new = Label(LabelFileSystem(fstype,
                                  IF t.part = None THEN t.disk ELSE t.part))
                 /\ (\A m2 \in MountsOf(t) :
                       FsOptionOf(fsOptions, m2)[2] \notin FsLabelers)
                      => new = old
        /\ \A d \in DOMAIN disks :
             /\ TargetIn(disks, [disk |-> DiskChars(d), part |-> None]).device
                  = disks'[d].device
             /\ MountsOf([disk |-> DiskChars(d), part |-> None]) = {}
                  => disks'[d].fstabId = disks[d].fstabId
             /\ \A n \in DOMAIN disks[d].partitions :
                  MountsOf([disk |-> DiskChars(d), part |-> n]) = {}
                    => disks'[d].partitions[n] = disks[d].partitions[n]
    ]_vars

\* a passed build run mounted / on p1 as ext4, now LABEL=p1, and /boot on
\* the swap-labelled p2 as vfat, still LABEL=p2
C27_Witness ==
  /\ fsRun.result = "passed" /\ fsRun.build
  /\ DOMAIN systemEntry.filesystem = {MountPointNames[1], MountPointNames[2]}
  /\ systemEntry.filesystem[MountPointNames[1]] =
       << MountPointNames[1], DevSda \o <<"1">>, "ext4", Label(PartName(1)) >>
  /\ systemEntry.filesystem[MountPointNames[2]] =
       << MountPointNames[2], DevSda \o <<"2">>, "vfat", Label(PartName(2)) >>
  /\ disks["d1"].partitions[PartName(1)].fstabId = Label(PartName(1))
  /\ disks["d1"].partitions[PartName(2)].fstabId = Label(PartName(2))

\* C28: an invocation of SystemBuildFileSystem (any phase) on an undefined
\* system, or on a system entry that has 'filesystem' already, ends
\* failed, runs no command and leaves 'filesystem', 'filesystem-info' and
\* every disk and partition record as they were.
C28_FsNoReentry ==
  [][ ( /\ fsRun' # fsRun \/ systemEntry' # systemEntry \/ disks' # disks
        /\ \/ fsRun'.system \notin DefinedSystems
           \/ "filesystem" \in systemEntry.keys )
      => ( /\ fsRun'.result = "failed"
           /\ fsRun'.cmds = <<>>
           /\ systemEntry' = systemEntry
           /\ disks' = disks ) ]_vars

\* an invocation on the defined system has failed on the table a passed
\* run left
C28_Witness ==
  /\ fsRun.result = "failed" /\ fsRun.cmds = <<>>
  /\ fsRun.system \in DefinedSystems
  /\ "filesystem" \in systemEntry.keys
  /\ Len(fsOptions) = 2
  /\ DOMAIN systemEntry.filesystem =
       {fsOptions[i][1] : i \in 1..Len(fsOptions)}

\* the mount point an env_<mountpoint> option names
MountOfOption(opt) == SubSeq(opt, Len(EnvPrefix) + 1, Len(opt))

\* the positions of the env_<mountpoint> options of the aspect section
EnvOptions ==
  {i \in 1..Len(aspectOptions) : StartsWith(aspectOptions[i][1], EnvPrefix)}

\* the joinpoint that ran last is a start joinpoint of a build phase
StartedInBuildPhase ==
  \/ joinpoint.name = "start__"
  \/ joinpoint.name = "start" /\ joinpoint.phase \in {"build", "system_build"}

\* C29: after an end joinpoint of any phase (end, end__build,
\* end__system_build, end__use_system_build) no variable named by an
\* env_<mountpoint> option is defined in the environment, whatever ran
\* before and whether or not the variable was defined before; after a
\* passed start joinpoint of a build phase (start__build,
\* start__system_build, start__use_system_build, or start in phase build
\* or system_build) every such variable is defined, and it holds the
\* device that the 'filesystem' table records for a mount point the
\* variable is named for (the not-found text if the table has no such
\* mount point)
C29_EndUndefinesStartDefines ==
  /\ joinpoint.name \in {"end", "end__"} =>
       \A i \in EnvOptions : aspectOptions[i][2] \notin DOMAIN env
  /\ (StartedInBuildPhase /\ joinpoint.result = "passed") =>
       \A i \in EnvOptions :
         LET v == aspectOptions[i][2]
         IN  /\ v \in DOMAIN env
             /\ \E j \in EnvOptions :
                  LET mpt == MountOfOption(aspectOptions[j][1])
                  IN  /\ aspectOptions[j][2] = v
                      /\ env[v] =
                           IF mpt \in DOMAIN systemEntry.filesystem
                           THEN systemEntry.filesystem[mpt][2]
                           ELSE DeviceNotFound

\* an end__<phase> joinpoint right after a start__<phase> joinpoint, for
\* variables that were defined before the section and whose mount points
\* have file systems
C29_Witness ==
  /\ joinpoint.name = "end__"
  /\ joinpoint.prev = "start__"
  /\ "PATH" \in DOMAIN env
  /\ \A i \in EnvOptions :
       MountOfOption(aspectOptions[i][1]) \in DOMAIN systemEntry.filesystem
  /\ Cardinality(EnvOptions) = 2

\* the name the documentation gives the boot loader: the value of
\* 'efi-boot-name', 'boot' without it
DocumentedBootName ==
  IF "efi-boot-name" \in DOMAIN efiOptions THEN efiOptions["efi-boot-name"]
  ELSE <<"b", "o", "o", "t">>

\* C30: after build the bootloader id is the value of the option
\* 'efi-boot-name', or 'boot' when the option is omitted, and the path
\* written to startup.nsh is /EFI/<that name>/grubx64.efi
C30_EfiBootNameUsed ==
  grub.result = "done" =>
    /\ grub.bootloaderId = DocumentedBootName
    /\ grub.GRUB_OPTIONS[Len(grub.GRUB_OPTIONS)] = DocumentedBootName
    /\ grub.mv = 0 =>
         grub.startup = <<"/", "E", "F", "I", "/">> \o DocumentedBootName
                          \o <<"/", "g", "r", "u", "b", "x", "6", "4", ".",
                               "e", "f", "i">>

\* the position of the declaration part_<name> in the sorted list
SortedPos(name) ==
  CHOOSE i \in 1..Len(partitions) : partitions[i][1] = name

\* the place of a command in the documented order: the table creation,
\* then per sorted declaration create, name, flags and type code, then
\* probe, settle, and the swap initialisations
Rank(c) ==
  CASE c.tool = "mklabel" -> 0
    [] c.tool = "mkpart" -> 10 * SortedPos(c.part) + 1
    [] c.tool = "name" -> 10 * SortedPos(c.part) + 2
    [] c.tool = "set" -> 10 * SortedPos(c.part) + 3
    [] c.tool \in {"sfdisk", "gfdisk"} -> 10 * SortedPos(c.part) + 4
    [] c.tool = "partprobe" -> 10 * (Len(partitions) + 1)
    [] c.tool = "settle" -> 10 * (Len(partitions) + 1) + 1
    [] OTHER -> 10 * (Len(partitions) + 1) + 2

\* C31: in build mode the first command is the table creation; the
\* commands follow the documented order (per sorted declaration its
\* create-partition, name, flag and type-code calls, then probe, settle,
\* and mkswap only after settle), only flag and mkswap calls occurring
\* more than once at their place; a create-partition call that exited
\* zero is followed by the name call of the same declaration, and probe
\* by settle.
C31_CommandOrder ==
  build =>
    /\ cmds # <<>> => cmds[1].tool = "mklabel"
    /\ \A i \in 1..Len(cmds), j \in 1..Len(cmds) :
         i < j =>
           /\ Rank(cmds[i]) <= Rank(cmds[j])
           /\ cmds[i].tool \notin {"set", "mkswap"}
                => Rank(cmds[i]) < Rank(cmds[j])
    /\ \A i \in CreatedBy({"primary", "extended", "logical"}) :
         /\ i < Len(cmds)
         /\ cmds[i + 1].tool = "name" /\ cmds[i + 1].part = cmds[i].part
    /\ \A i \in 1..Len(cmds) :
         cmds[i].tool = "partprobe" =>
           /\ i < Len(cmds) /\ cmds[i + 1].tool = "settle"
           /\ \A k \in 1..Len(partitions) :
                partitions[k][1] \in DOMAIN disks[diskname].partitions

\* a passed build run of a flagged declaration of unmapped type and a
\* swap declaration issued all ten kinds of call in the documented order
C31_Witness ==
  /\ build /\ pc = "done" /\ result = "passed"
  /\ [i \in 1..Len(cmds) |-> cmds[i].tool]
       = <<"mklabel", "mkpart", "name", "set", "sfdisk", "mkpart", "name",
           "partprobe", "settle", "mkswap">>

\* the commands that write to the disk
ModifyingTools ==
  {"mklabel", "mkpart", "name", "set", "sfdisk", "gfdisk", "mkswap"}

\* C32: a reuse-mode run issues no command that modifies the disk: its
\* command list holds nothing but partprobe and settle.
C32_ReuseIssuesNoWrites ==
  ~build =>
    \A i \in 1..Len(cmds) :
      /\ cmds[i].tool \notin ModifyingTools
      /\ cmds[i].tool \in {"partprobe", "settle"}

\* a passed reuse-mode run over a flagged declaration and a swap
\* declaration, whose records exist, issued probe and settle only
C32_Witness ==
  /\ ~build /\ pc = "done" /\ result = "passed"
  /\ Len(partitions) = 2
  /\ \E k \in 1..2 : Len(partitions[k]) > 4
  /\ \E k \in 1..2 : IsSwapPart(partitions[k])
  /\ \A k \in 1..2 : partitions[k][1] \in DOMAIN disks[diskname].partitions
  /\ [i \in 1..Len(cmds) |-> cmds[i].tool] = <<"partprobe", "settle">>

\* the number and the device of every record of disk d
Numbering(d) ==
  [n \in DOMAIN disks[d].partitions |->
     <<disks[d].partitions[n].number, disks[d].partitions[n].device>>]

\* C33: two passed runs of the same module and mode on equal disk records,
\* with the same part_<name> options presented in whatever iteration
\* orders, leave the same 'partitions' mapping (the same number and
\* device for every name) and processed the declarations, hence issued
\* their create-partition calls, in the same sequence, also when two
\* declarations carry the same order token.
C33_OrderIndependent ==
  \A d \in DOMAIN ran, e \in DOMAIN ran :
    ( /\ ran[d].result = "passed" /\ ran[e].result = "passed"
      /\ ran[d].build = ran[e].build
      /\ ran[d].module = ran[e].module )
    => /\ Numbering(d) = Numbering(e)
       /\ ran[d].partitions = ran[e].partitions

\* C34: whenever a build-mode run has ended, the names of the disk's
\* 'partitions' mapping are exactly the declarations whose
\* create-partition command exited zero, and every name, flag and
\* type-code call was issued with the number of its declaration's record.
C34_RecordsMatchDisk ==
  (build /\ pc = "done") =>
    /\ DOMAIN disks[diskname].partitions
         = {cmds[i].part : i \in CreatedBy({"primary", "extended", "logical"})}
    /\ \A k \in 1..Len(cmds) :
         cmds[k].tool \in {"name", "set", "sfdisk", "gfdisk"} =>
           /\ cmds[k].part \in DOMAIN disks[diskname].partitions
           /\ cmds[k].number = disks[diskname].partitions[cmds[k].part].number

\* the run that got past the look-ups on disk d was aborted
Aborted(d) == d \in DOMAIN ran /\ ran[d].result \in {"failed", "raised"}

\* C35: a disk whose run was aborted past the initial checks has a
\* 'partitions' entry and an empty 'swaps' list, and none of its records
\* carries the label the swap pass would have given it; every later
\* invocation on that disk fails, issues no command and leaves the
\* records as they are.
C35_AbortedDiskStaysClosed ==
  [][ /\ \A d \in DOMAIN disks :
           Aborted(d) =>
             /\ {"partitions", "swaps"} \subseteq disks[d].keys
             /\ disks[d].swaps = <<>>
             /\ \A n \in DOMAIN disks[d].partitions :
                  disks[d].partitions[n].fstabId # Label(n)
      /\ (pc \in {"idle", "done"} /\ Aborted(diskname')) =>
           /\ result' = "failed"
           /\ cmds' = <<>>
           /\ disks' = disks
           /\ ran' = ran ]_vars

\* a later invocation on a disk whose run was aborted after it had
\* emitted the record of a swap partition
C35_Witness ==
  /\ pc = "done" /\ result = "failed" /\ cmds = <<>>
  /\ Aborted(diskname)
  /\ \E i \in 1..Len(options) :
       /\ IsSwapPart(options[i])
       /\ options[i][1] \in DOMAIN disks[diskname].partitions
       /\ disks[diskname].partitions[options[i][1]].fstabId
            # Label(options[i][1])

\* C36: every create-partition call of a build-mode run has a non-empty
\* extent, start < end.
C36_NonEmptyExtent ==
  build =>
    \A i \in Mkparts({"primary", "extended", "logical"}) :
      cmds[i].start < cmds[i].end

\* every partition record has a string as its fstab-id
RecordsHaveFstabId ==
  \A d \in DOMAIN disks :
    \A n \in DOMAIN disks[d].partitions :
      disks[d].partitions[n].fstabId # None

\* C37: every record the partitioner emitted has a defined fstab-id,
\* whatever the disk's fstab-id is, and SystemBuildFileSystem run on the
\* partitioned disk does not end by an exception unless a tool failed (in
\* reuse mode, where it runs no tool that can fail, never).
C37_FstabIdDefined ==
  /\ RecordsHaveFstabId
  /\ ~fsRun.build => fsRun.result # "raised"

\* the positions of GRUB_OPTIONS that hold option names: the class's own
\* options and the first of every pair build has appended
GrubFlagPositions ==
  {i \in 1..Len(grub.GRUB_OPTIONS) :
     i <= Len(EFI_GRUB_OPTIONS) \/ (i - Len(EFI_GRUB_OPTIONS)) % 2 = 1}

\* the positions of the values given with the option flag in GRUB_OPTIONS
GrubValuesOf(flag) ==
  {i + 1 : i \in {k \in GrubFlagPositions : grub.GRUB_OPTIONS[k] = flag}}

\* C38: the grub option list an invocation of build uses holds exactly
\* one --efi-directory and one --bootloader-id option, with the values of
\* that invocation; nothing is carried over from earlier invocations.
C38_GrubOptionsPerInvocation ==
  grub.result # "none" =>
    /\ Cardinality(GrubValuesOf("--efi-directory")) = 1
    /\ Cardinality(GrubValuesOf("--bootloader-id")) = 1
    /\ \A i \in GrubValuesOf("--efi-directory") :
         grub.GRUB_OPTIONS[i] = efiOptions["efi-directory"]
    /\ \A i \in GrubValuesOf("--bootloader-id") :
         grub.GRUB_OPTIONS[i] = grub.bootloaderId

====
